---- MODULE Spec2Model ----
(***************************************************************************)
(* Model of the jet_raiders game server core: the per-lobby simulation     *)
(* worker (use_cases/game.rs, systems/projectiles.rs, systems/movement.rs),*)
(* the lobby registry (use_cases/lobby.rs) and the connection handler      *)
(* (interface_adapters/net/client.rs).                                     *)
(*                                                                         *)
(* Units.  Time is counted in ticks (dt = 1 is one TICK_INTERVAL).  The    *)
(* f32 quantities of the simulation are carried as small integers: a       *)
(* length unit is a fraction of the ship radius, an angle unit is a        *)
(* quarter turn, throttle is 0 or 1.  The tuning constants below are the   *)
(* program's constants expressed in these units.                           *)
(***************************************************************************)
EXTENDS Integers, Sequences, FiniteSets, TLC

(***************************************************************************)
(* Bounds of the model.                                                    *)
(***************************************************************************)
MaxTick == 6
InputCap == 3
MaxEvents == 4
NumConns == 2
LobbyConns == 1
LobbyMaxTick == 2
LobbyMaxEvents == 1
PipeMaxTick == 5
BroadcastCap == 2
SessionMaxTick == 3
SessionMaxEvents == 2
FrameLogCap == 2
NumCreates == 3
MaxCalls == 4

(***************************************************************************)
(* Program constants (scaled to the model's units).                        *)
(***************************************************************************)
Dt == 1
MaxHp == 100
ProjectileDamage == 30
ProjectileTtl == 2
ProjectileCooldown == 1
ProjectileSpeed == 2
ProjectileRadius == 0
PlayerRadius == 1
RespawnDelay == 2
MaxSpeed == 1
TurnRate == 1
ThrottleRate == 1
MinX == -4
MaxX == 4
MinY == -2
MaxY == 2

\* WebSocket close codes (axum close_code::POLICY, UNSUPPORTED, ERROR).
ClosePolicy == 1008
CloseUnsupported == 1003
CloseError == 1011

\* MAX_SESSION_TOKEN_LEN, in characters of the model's tokens.
MaxSessionTokenLen == 2

\* client.rs 402: MAX_INVALID_JSON.
MaxInvalidJson == 10

\* Auth server: GUEST_SESSION_TTL_SECONDS in clock steps, the clock's horizon
\* and the number of requests.
GuestSessionTtl == 2
MaxNow == 3
NumAuthReqs == 3

\* Lobbies created under one id, one after the other.
MaxLobbyLives == 2

\* Input frames one connection sends in the flood.
FloodMaxEvents == 4

\* Ticks of the world that is followed through a death and the respawn.
RespawnMaxTick == 8

\* Requests sent to the matchmaking queue.
MaxEnqueues == 4

\* f32 values that are not finite, carried as codes outside the range of the
\* model's finite values.
NaN == 1000
PosInf == 999
NegInf == -999

PlayerIds == {7, 8}

\* The id of the lobby this model follows (server.rs 98: "test"), as the
\* sequence of its characters.
DefaultLobbyId == <<"t">>

\* Positions `now % 800 - 400, now % 460 - 230` can produce (a clock reading).
SpawnPoints == {<<0, 0>>, <<0, -2>>}

NeutralInput == [thrust |-> 0, turn |-> 0, shoot |-> FALSE]

\* PlayerInput values after sanitize_input: finite, clamped to [-1, 1].
SanitizedInputs == {[thrust |-> 1, turn |-> 1, shoot |-> FALSE],
                    [thrust |-> 0, turn |-> 0, shoot |-> TRUE]}

\* Input frames as a client can send them (PlayerInputDto): in range, out of
\* range, and not finite.
RawInputs == {[thrust |-> 1, turn |-> 1, shoot |-> FALSE],
              [thrust |-> 5, turn |-> -3, shoot |-> TRUE],
              [thrust |-> NaN, turn |-> 0, shoot |-> FALSE],
              [thrust |-> 0, turn |-> PosInf, shoot |-> TRUE],
              [thrust |-> NegInf, turn |-> 0, shoot |-> TRUE]}

VARIABLES
    \* ---- simulation worker (world_task locals) ----
    tick,               \* u64 tick counter
    entities,           \* Vec<SimEntity>, insertion order
    projectiles,        \* Vec<SimProjectile>
    next_projectile_id, \* u64
    match_elapsed,      \* Duration, in ticks
    match_ended,        \* bool
    w_pc,               \* worker position: "start","sleep","select","body","done"
    w_notified,         \* the Notified future of the worker's current select was woken
    \* ---- lobby channels (LobbyHandle) ----
    input_q,            \* mpsc channel of GameEvent (bounded)
    server_state,       \* watch<ServerState> value
    state_version,      \* watch version counter of server_state
    world_log,          \* ticks of the WorldUpdates sent on world_tx, in order
    last_snapshot,      \* last WorldUpdate sent on world_tx (meaningful once one was sent)
    prev_snapshot_tick, \* tick of the WorldUpdate sent before last_snapshot
    snapshots_sent,     \* number of WorldUpdates sent on world_tx so far
    world_latest,       \* watch<Utf8Bytes> latest slot: tick of the bytes held, 0 = ""
    bytes_log,          \* ticks of the bytes sent on world_bytes_tx, in order
    \* ---- lobby parameters ----
    is_pinned,          \* LobbyHandle.is_pinned
    allowed_players,    \* LobbyHandle.allowed_players (empty = open lobby)
    match_time_limit,   \* in ticks (0 = no limit)
    \* ---- lobby registry ----
    in_registry,        \* the lobbies map holds the entry of this lobby id
    active_connections, \* AtomicUsize
    shutdown_fired,     \* number of shutdown_tx.notify_waiters() calls
    removals,           \* number of lobbies.remove(lobby_id) calls
    player_connections, \* player_id -> conn token (0 = no owner)
    \* ---- match-end watcher task ----
    wt_pc,              \* "waiting","woken","cleanup","done"
    wt_seen,            \* version of server_state the watcher's receiver has seen
    stale_watcher,      \* the watcher of an earlier lobby of this id is at its cleanup
    \* ---- snapshot serializer task ----
    ser_pc,             \* "recv","publish","done"
    ser_cursor,         \* number of world_log entries received or skipped
    ser_item,           \* tick of the update being published
    \* ---- connection handlers ----
    conn,               \* per connection: its position and ConnCtx
    \* ---- lobby registry: the other lobbies and its callers ----
    other_lobbies,      \* keys of the lobbies map besides this lobby's id
    spawn_log,          \* lobby ids for which create_lobby spawned a world task
    create_req,         \* POST /lobbies requests: payload lobby_id and status
    reg_calls,          \* calls made by free callers of the registry
    \* ---- auth server ----
    sessions,           \* AppState.sessions: HashMap<String, Session>
    issued,             \* number of session tokens Uuid::new_v4 has generated
    now,                \* SystemClock.now_epoch_seconds, in clock steps
    auth_req,           \* requests to the auth server: input, position, response
    \* ---- matchmaking server ----
    mm_queue,           \* Matchmaker.queue: VecDeque<WaitingPlayer>, front first
    mm_req,             \* the QueueRequest of the last POST to the queue handler
    mm_out,             \* the outcome of that request
    mm_calls,           \* number of requests handled
    \* ---- bookkeeping of the environment ----
    events_sent         \* number of events free producers have enqueued

simVars == <<tick, entities, projectiles, next_projectile_id, match_elapsed,
             match_ended>>
snapVars == <<world_log, last_snapshot, prev_snapshot_tick, snapshots_sent>>
stateVars == <<server_state, state_version>>
cfgVars == <<is_pinned, allowed_players, match_time_limit>>
apiVars == <<other_lobbies, spawn_log, create_req, reg_calls>>
authVars == <<sessions, issued, now, auth_req>>
mmVars == <<mm_queue, mm_req, mm_out, mm_calls>>
regVars == <<in_registry, active_connections, shutdown_fired, removals>>
watcherVars == <<wt_pc, wt_seen, stale_watcher>>
serVars == <<ser_pc, ser_cursor, ser_item, world_latest, bytes_log>>
connVars == <<conn, player_connections>>
vars == <<simVars, snapVars, stateVars, cfgVars, apiVars, authVars, mmVars, regVars, watcherVars, serVars,
          connVars, w_pc, w_notified, input_q, events_sent>>

(***************************************************************************)
(* Arithmetic helpers.                                                     *)
(***************************************************************************)
Max2(a, b) == IF a >= b THEN a ELSE b
Clamp(v, lo, hi) == IF v < lo THEN lo ELSE IF v > hi THEN hi ELSE v

\* f32::is_finite on the model's values.
IsFinite(v) == v \notin {NaN, PosInf, NegInf}

\* f32::clamp: NaN stays NaN, an infinity is clamped like any other value.
ClampF(v, lo, hi) == IF v = NaN THEN NaN ELSE Clamp(v, lo, hi)

\* str::trim on a string given as the sequence of its characters.
RECURSIVE TrimStart(_)
TrimStart(s) == IF s # <<>> /\ Head(s) = " " THEN TrimStart(Tail(s)) ELSE s

RECURSIVE TrimEnd(_)
TrimEnd(s) ==
    IF s # <<>> /\ s[Len(s)] = " " THEN TrimEnd(SubSeq(s, 1, Len(s) - 1)) ELSE s

Trim(s) == TrimEnd(TrimStart(s))

\* sin and cos on quarter turns (rot is kept modulo a full turn).
Sin(r) == CASE r % 4 = 0 -> 0 [] r % 4 = 1 -> 1 [] r % 4 = 2 -> 0 [] OTHER -> -1
Cos(r) == CASE r % 4 = 0 -> 1 [] r % 4 = 1 -> 0 [] r % 4 = 2 -> -1 [] OTHER -> 0

(***************************************************************************)
(* GameEvent (use_cases/types.rs).                                         *)
(***************************************************************************)
JoinEv(p) == [type |-> "Join", player_id |-> p, input |-> NeutralInput]
LeaveEv(p) == [type |-> "Leave", player_id |-> p, input |-> NeutralInput]
InputEv(p, i) == [type |-> "Input", player_id |-> p, input |-> i]

(***************************************************************************)
(* world_task: the event drain (game.rs 70-108).                           *)
(***************************************************************************)
NewEntity(p, pos) ==
    [id |-> p, x |-> pos[1], y |-> pos[2], rot |-> 0, hp |-> MaxHp,
     alive |-> TRUE, respawn_timer |-> 0, throttle |-> 0,
     last_input |-> NeutralInput, shoot_cooldown |-> 0]

\* GameEvent::Join: entities.push(..) with no check for an existing id.
ApplyJoin(w, p, pos) == [w EXCEPT !.entities = Append(@, NewEntity(p, pos))]

\* A Leave that removes the entity and leaves its projectiles flying.
ApplyLeaveKeepsProjectiles(w, p) ==
    [w EXCEPT !.entities = SelectSeq(@, LAMBDA e: e.id # p)]

\* GameEvent::Leave: entities.retain(id != p); projectiles.retain(owner != p).
ApplyLeave(w, p) ==
    [w EXCEPT !.entities = SelectSeq(@, LAMBDA e: e.id # p),
              !.projectiles = SelectSeq(@, LAMBDA q: q.owner_id # p)]

\* entities.iter_mut().find(id == p): the first entity with that id.
FindEntity(ents, p) ==
    IF \E i \in 1..Len(ents): ents[i].id = p
    THEN CHOOSE i \in 1..Len(ents):
            ents[i].id = p /\ \A j \in 1..(i - 1): ents[j].id # p
    ELSE 0

\* GameEvent::Input: store last_input on the matching entity, if any.
ApplyInput(w, p, inp) ==
    LET i == FindEntity(w.entities, p)
    IN IF i = 0 THEN w
       ELSE [w EXCEPT !.entities[i].last_input = inp]

ApplyEvent(w, ev, pos) ==
    CASE ev.type = "Join" -> ApplyJoin(w, ev.player_id, pos)
      [] ev.type = "Leave" -> ApplyLeave(w, ev.player_id)
      [] OTHER -> ApplyInput(w, ev.player_id, ev.input)

\* A drain that takes the newest event first.
RECURSIVE DrainEventsNewestFirst(_, _, _)
DrainEventsNewestFirst(w, q, pos) ==
    IF q = <<>> THEN w
    ELSE DrainEventsNewestFirst(ApplyEvent(w, q[Len(q)], pos),
                                SubSeq(q, 1, Len(q) - 1), pos)

\* while let Ok(ev) = input_rx.try_recv(): in arrival order.
RECURSIVE DrainEvents(_, _, _)
DrainEvents(w, q, pos) ==
    IF q = <<>> THEN w
    ELSE DrainEvents(ApplyEvent(w, Head(q), pos), Tail(q), pos)

(***************************************************************************)
(* ship_movement::tick_entity and wrap_entity (systems/movement.rs).       *)
(***************************************************************************)
wrap_entity(e) ==
    LET wx == IF e.x < MinX THEN MaxX ELSE IF e.x > MaxX THEN MinX ELSE e.x
        wy == IF e.y < MinY THEN MaxY ELSE IF e.y > MaxY THEN MinY ELSE e.y
    IN [e EXCEPT !.x = wx, !.y = wy]

tick_entity(e) ==
    LET rot == (e.rot + e.last_input.turn * TurnRate * Dt) % 4
        thr == Clamp(e.throttle + e.last_input.thrust * ThrottleRate * Dt, 0, 1)
        vel_x == Sin(rot) * thr * MaxSpeed
        vel_y == (0 - Cos(rot)) * thr * MaxSpeed
    IN wrap_entity([e EXCEPT !.rot = rot, !.throttle = thr,
                             !.x = e.x + vel_x * Dt, !.y = e.y + vel_y * Dt])

\* A respawn that keeps the input the entity last received.
StepEntityKeepsInput(e, pos) ==
    IF ~e.alive
    THEN LET t == e.respawn_timer - Dt
         IN IF t <= 0
            THEN [e EXCEPT !.x = pos[1], !.y = pos[2], !.rot = 0, !.hp = MaxHp,
                           !.alive = TRUE, !.respawn_timer = 0, !.throttle = 0,
                           !.shoot_cooldown = 0]
            ELSE [e EXCEPT !.respawn_timer = t]
    ELSE tick_entity(e)

\* game.rs 121-149: respawn countdown for dead entities, movement for the others.
StepEntity(e, pos) ==
    IF ~e.alive
    THEN LET t == e.respawn_timer - Dt
         IN IF t <= 0
            THEN [e EXCEPT !.x = pos[1], !.y = pos[2], !.rot = 0, !.hp = MaxHp,
                           !.alive = TRUE, !.respawn_timer = 0, !.throttle = 0,
                           !.shoot_cooldown = 0, !.last_input = NeutralInput]
            ELSE [e EXCEPT !.respawn_timer = t]
    ELSE tick_entity(e)

StepEntities(ents, pos) == [i \in 1..Len(ents) |-> StepEntity(ents[i], pos)]

(***************************************************************************)
(* projectiles::tick_projectiles (systems/projectiles.rs).                 *)
(***************************************************************************)
\* lines 23-48: spawn loop over the entities, in order.
RECURSIVE SpawnLoop(_, _, _, _)
SpawnLoop(ents, i, projs, nid) ==
    IF i > Len(ents) THEN [entities |-> ents, projectiles |-> projs, next_id |-> nid]
    ELSE LET e == ents[i] IN
         IF ~e.alive THEN SpawnLoop(ents, i + 1, projs, nid)
         ELSE LET cd == Max2(e.shoot_cooldown - Dt, 0)
                  dir_x == Sin(e.rot)
                  dir_y == 0 - Cos(e.rot)
              IN IF e.last_input.shoot /\ cd <= 0
                 THEN SpawnLoop(
                        [ents EXCEPT ![i].shoot_cooldown = ProjectileCooldown],
                        i + 1,
                        Append(projs,
                               [id |-> nid, owner_id |-> e.id,
                                x |-> e.x + dir_x * PlayerRadius,
                                y |-> e.y + dir_y * PlayerRadius,
                                rot |-> e.rot,
                                vx |-> dir_x * ProjectileSpeed,
                                vy |-> dir_y * ProjectileSpeed,
                                ttl |-> ProjectileTtl]),
                        nid + 1)
                 ELSE SpawnLoop([ents EXCEPT ![i].shoot_cooldown = cd],
                                i + 1, projs, nid)

\* lines 51-55: integrate movement and lifetime.
Integrate(projs) ==
    [j \in 1..Len(projs) |->
        [projs[j] EXCEPT !.x = @ + projs[j].vx * Dt,
                         !.y = @ + projs[j].vy * Dt,
                         !.ttl = @ - Dt]]

HitRadiusSq == (PlayerRadius + ProjectileRadius) * (PlayerRadius + ProjectileRadius)

InHitRange(e, p) ==
    LET dx == e.x - p.x
        dy == e.y - p.y
    IN dx * dx + dy * dy <= HitRadiusSq

\* lines 67-77: the first entity, in order, that is alive, not the owner, in range.
Hittable(e, p) == e.alive /\ e.id # p.owner_id /\ InHitRange(e, p)

\* A collision loop that keeps the last entity in range instead of breaking
\* at the first.
LastHit(ents, p) ==
    IF \E i \in 1..Len(ents): Hittable(ents[i], p)
    THEN CHOOSE i \in 1..Len(ents):
            Hittable(ents[i], p) /\ \A k \in (i + 1)..Len(ents): ~Hittable(ents[k], p)
    ELSE 0

FirstHit(ents, p) ==
    IF \E i \in 1..Len(ents): Hittable(ents[i], p)
    THEN CHOOSE i \in 1..Len(ents):
            Hittable(ents[i], p) /\ \A k \in 1..(i - 1): ~Hittable(ents[k], p)
    ELSE 0

\* A hit that clamps hp but forgets to mark the entity dead.
ApplyHitNoDeath(e) ==
    LET hp == e.hp - ProjectileDamage
    IN IF hp <= 0 THEN [e EXCEPT !.hp = 0] ELSE [e EXCEPT !.hp = hp]

\* A death that leaves the ship's throttle and shoot cooldown as they were.
ApplyHitKeepsMotion(e) ==
    LET hp == e.hp - ProjectileDamage
    IN IF hp <= 0
       THEN [e EXCEPT !.hp = 0, !.alive = FALSE, !.respawn_timer = RespawnDelay]
       ELSE [e EXCEPT !.hp = hp]

\* A hit that kills at hp <= 0 without the clamp `e.hp = 0`.
ApplyHitNoClamp(e) ==
    LET hp == e.hp - ProjectileDamage
    IN IF hp <= 0
       THEN [e EXCEPT !.hp = hp, !.alive = FALSE, !.respawn_timer = RespawnDelay,
                      !.throttle = 0, !.shoot_cooldown = 0]
       ELSE [e EXCEPT !.hp = hp]

\* lines 78-85: damage, clamp, death.
ApplyHit(e) ==
    LET hp == e.hp - ProjectileDamage
    IN IF hp <= 0
       THEN [e EXCEPT !.hp = 0, !.alive = FALSE, !.respawn_timer = RespawnDelay,
                      !.throttle = 0, !.shoot_cooldown = 0]
       ELSE [e EXCEPT !.hp = hp]

\* lines 87-93: the "player hit" log line of one hit (victim_id, shooter_id,
\* projectile_id, victim_hp), with the victim's place in the entity list and
\* what the collision test of lines 68-77 saw of every entity at that moment.
HitRecord(ents, p, i) ==
    [projectile_id |-> p.id, shooter_id |-> p.owner_id,
     victim |-> i, victim_id |-> ents[i].id,
     hp_before |-> ents[i].hp, victim_hp |-> ApplyHit(ents[i]).hp,
     view |-> [k \in 1..Len(ents) |->
                 [id |-> ents[k].id, alive |-> ents[k].alive,
                  in_range |-> InHitRange(ents[k], p)]]]

\* lines 61-98: collision loop over the projectiles, in order; hits is the
\* sequence of "player hit" log lines written so far.
RECURSIVE HitLoop(_, _, _, _)
HitLoop(ents, projs, j, hits) ==
    IF j > Len(projs)
    THEN [entities |-> ents, projectiles |-> projs, hits |-> hits]
    ELSE IF projs[j].ttl <= 0 THEN HitLoop(ents, projs, j + 1, hits)
    ELSE LET i == FirstHit(ents, projs[j])
         IN IF i = 0 THEN HitLoop(ents, projs, j + 1, hits)
            ELSE HitLoop([ents EXCEPT ![i] = ApplyHit(ents[i])],
                         [projs EXCEPT ![j].ttl = 0], j + 1,
                         Append(hits, HitRecord(ents, projs[j], i)))

\* line 100: projectiles.retain(|p| p.ttl > 0.0).
RetainLive(projs) == SelectSeq(projs, LAMBDA p: p.ttl > 0)

\* tick_projectiles; pre_hit and flying are the entities and the projectiles
\* as the collision loop finds them (after lines 23-55), hits its log lines.
tick_projectiles(ents, projs, nid) ==
    LET s == SpawnLoop(ents, 1, projs, nid)
        h == HitLoop(s.entities, Integrate(s.projectiles), 1, <<>>)
    IN [entities |-> h.entities,
        projectiles |-> RetainLive(h.projectiles),
        next_id |-> s.next_id,
        pre_hit |-> s.entities,
        flying |-> Integrate(s.projectiles),
        hits |-> h.hits]

(***************************************************************************)
(* world_task: the snapshot (game.rs 168-181).                             *)
(***************************************************************************)
EntitySnapshot(e) == [id |-> e.id, x |-> e.x, y |-> e.y, rot |-> e.rot, hp |-> e.hp]
ProjectileSnapshot(p) ==
    [id |-> p.id, owner_id |-> p.owner_id, x |-> p.x, y |-> p.y, rot |-> p.rot]

MapSeq(s, Op(_)) == [i \in 1..Len(s) |-> Op(s[i])]

EntitiesSnapshot(ents) == MapSeq(SelectSeq(ents, LAMBDA e: e.alive), EntitySnapshot)
ProjectilesSnapshot(projs) == MapSeq(projs, ProjectileSnapshot)

WorldUpdate(t, ents, projs) ==
    [tick |-> t, entities |-> EntitiesSnapshot(ents),
     projectiles |-> ProjectilesSnapshot(projs)]

(***************************************************************************)
(* world_task as a process.                                                *)
(***************************************************************************)
\* A tick counter that stops advancing once the match has ended.
NextTickFrozenAfterEnd(t) == IF match_ended THEN t ELSE t + 1

\* game.rs 168: tick += 1.
NextTick(t) == t + 1

\* A publish that opens the lobby again where the match should end.
PublishStateReopens(s) ==
    /\ server_state' = IF s = "MatchEnded" THEN "Lobby" ELSE s
    /\ state_version' = state_version + 1

PublishState(s) ==
    /\ server_state' = s
    /\ state_version' = state_version + 1

\* game.rs 24: publish MatchStarting{in_seconds: 3}, then sleep.
WorkerStart ==
    /\ w_pc = "start"
    /\ PublishState("MatchStarting")
    /\ w_pc' = "sleep"
    /\ UNCHANGED <<simVars, snapVars, cfgVars, apiVars, authVars, mmVars, regVars, watcherVars, serVars,
                   connVars, w_notified, input_q, events_sent>>

\* game.rs 25-29: the sleep ends; publish MatchRunning; enter the loop.
WorkerRun ==
    /\ w_pc = "sleep"
    /\ PublishState("MatchRunning")
    /\ w_pc' = "select"
    /\ UNCHANGED <<simVars, snapVars, cfgVars, apiVars, authVars, mmVars, regVars, watcherVars, serVars,
                   connVars, w_notified, input_q, events_sent>>

\* A tick branch that waits for the handlers: it is taken only while no
\* connection is writing to its socket and the input channel has room.
WorkerTickAwaitsClients(cap) ==
    /\ w_pc = "select"
    /\ tick < cap
    /\ \A c \in DOMAIN conn: conn[c].pc # "forward"
    /\ Len(input_q) < InputCap
    /\ IF ~match_ended /\ match_time_limit # 0
       THEN /\ match_elapsed' = match_elapsed + Dt
            /\ IF match_elapsed + Dt >= match_time_limit
               THEN PublishState("MatchEnded") /\ match_ended' = TRUE
               ELSE UNCHANGED <<server_state, state_version, match_ended>>
       ELSE UNCHANGED <<match_elapsed, server_state, state_version, match_ended>>
    /\ w_pc' = "body"
    /\ w_notified' = FALSE
    /\ UNCHANGED <<tick, entities, projectiles, next_projectile_id, snapVars,
                   cfgVars, apiVars, authVars, mmVars, regVars, watcherVars, serVars, connVars, input_q,
                   events_sent>>

\* A tick branch that ends the match only once the elapsed time is past the
\* limit.
WorkerTickPastLimit(cap) ==
    /\ w_pc = "select"
    /\ tick < cap
    /\ IF ~match_ended /\ match_time_limit # 0
       THEN /\ match_elapsed' = match_elapsed + Dt
            /\ IF match_elapsed + Dt > match_time_limit
               THEN PublishState("MatchEnded") /\ match_ended' = TRUE
               ELSE UNCHANGED <<server_state, state_version, match_ended>>
       ELSE UNCHANGED <<match_elapsed, server_state, state_version, match_ended>>
    /\ w_pc' = "body"
    /\ w_notified' = FALSE
    /\ UNCHANGED <<tick, entities, projectiles, next_projectile_id, snapVars,
                   cfgVars, apiVars, authVars, mmVars, regVars, watcherVars, serVars, connVars, input_q,
                   events_sent>>

\* game.rs 58-67: the interval.tick() branch of the select.  The Notified
\* future of this iteration is dropped when the branch completes.
WorkerTick(cap) ==
    /\ w_pc = "select"
    /\ tick < cap
    /\ IF ~match_ended /\ match_time_limit # 0
       THEN /\ match_elapsed' = match_elapsed + Dt
            /\ IF match_elapsed + Dt >= match_time_limit
               THEN PublishState("MatchEnded") /\ match_ended' = TRUE
               ELSE UNCHANGED <<server_state, state_version, match_ended>>
       ELSE UNCHANGED <<match_elapsed, server_state, state_version, match_ended>>
    /\ w_pc' = "body"
    /\ w_notified' = FALSE
    /\ UNCHANGED <<tick, entities, projectiles, next_projectile_id, snapVars,
                   cfgVars, apiVars, authVars, mmVars, regVars, watcherVars, serVars, connVars, input_q,
                   events_sent>>

\* game.rs 54-57: the shutdown.notified() branch of the select.
WorkerShutdown ==
    /\ w_pc = "select"
    /\ w_notified
    /\ w_pc' = "done"
    /\ UNCHANGED <<simVars, snapVars, stateVars, cfgVars, apiVars, authVars, mmVars, regVars, watcherVars,
                   serVars, connVars, w_notified, input_q, events_sent>>

\* game.rs 70-166: drain, step entities, tick projectiles.
BodyResult(posJoin, posRespawn) ==
    LET w0 == [entities |-> entities, projectiles |-> projectiles]
        w1 == DrainEvents(w0, input_q, posJoin)
        ents == StepEntities(w1.entities, posRespawn)
    IN tick_projectiles(ents, w1.projectiles, next_projectile_id)

\* game.rs 71-78: the Join arm unwraps SystemTime::now().duration_since(
\* UNIX_EPOCH), which panics with a system clock before the epoch.  The world
\* task ends there without the shutdown signal and drops input_rx.
WorkerPanics ==
    /\ w_pc = "body"
    /\ \E i \in DOMAIN input_q: input_q[i].type = "Join"
    /\ w_pc' = "done"
    /\ UNCHANGED <<simVars, snapVars, stateVars, cfgVars, apiVars, authVars, mmVars, regVars,
                   watcherVars, serVars, connVars, w_notified, input_q, events_sent>>

\* game.rs 70-181: the loop body after the select, up to world_tx.send.
WorkerBody(points) ==
    /\ w_pc = "body"
    /\ \E posJoin \in points, posRespawn \in points:
         LET r == BodyResult(posJoin, posRespawn) IN
         /\ entities' = r.entities
         /\ projectiles' = r.projectiles
         /\ next_projectile_id' = r.next_id
         /\ tick' = NextTick(tick)
         /\ last_snapshot' = WorldUpdate(NextTick(tick), r.entities, r.projectiles)
         /\ world_log' = Append(world_log, NextTick(tick))
    /\ prev_snapshot_tick' = last_snapshot.tick
    /\ snapshots_sent' = snapshots_sent + 1
    /\ input_q' = <<>>
    /\ w_pc' = "select"
    /\ UNCHANGED <<match_elapsed, match_ended, stateVars, cfgVars, apiVars, authVars, mmVars, regVars,
                   watcherVars, serVars, connVars, w_notified, events_sent>>

(***************************************************************************)
(* Producers of the input sink, as the worker sees them: any connection    *)
(* handler may enqueue Join, Leave or a sanitized Input.                   *)
(***************************************************************************)
Enqueue(ev) ==
    /\ Len(input_q) < InputCap
    /\ events_sent < MaxEvents
    /\ input_q' = Append(input_q, ev)
    /\ events_sent' = events_sent + 1
    /\ UNCHANGED <<simVars, snapVars, stateVars, cfgVars, apiVars, authVars, mmVars, regVars, watcherVars,
                   serVars, connVars, w_pc, w_notified>>

ProducerJoin == \E p \in PlayerIds: Enqueue(JoinEv(p))
ProducerLeave == \E p \in PlayerIds: Enqueue(LeaveEv(p))
ProducerInput == \E p \in PlayerIds, i \in SanitizedInputs: Enqueue(InputEv(p, i))

(***************************************************************************)
(* LobbyRegistry (use_cases/lobby.rs).                                     *)
(***************************************************************************)
\* A removal that fires the signal and leaves the entry in the map.
RemoveLobbyKeepingEntry ==
    /\ shutdown_fired' = shutdown_fired + 1
    /\ w_notified' = (w_notified \/ w_pc = "select")
    /\ in_registry' = in_registry
    /\ removals' = removals + 1

\* lobby.rs 247-248 and 267-268: shutdown_tx.notify_waiters(); lobbies.remove(id).
\* notify_waiters wakes only a Notified future that exists at the call: the
\* worker has one while it waits in its select, and none otherwise.
RemoveLobby ==
    /\ shutdown_fired' = shutdown_fired + 1
    /\ w_notified' = (w_notified \/ w_pc = "select")
    /\ in_registry' = FALSE
    /\ removals' = removals + 1

\* A decrement without the check for 0.
RemainingUnchecked(n) == n - 1

\* lobby.rs 217-235: the compare-exchange loop, saturating at 0.
Remaining(n) == IF n = 0 THEN 0 ELSE n - 1

\* lobby.rs 208-250.
register_disconnect ==
    IF ~in_registry
    THEN UNCHANGED <<regVars, w_notified>>
    ELSE IF /\ Remaining(active_connections) = 0
            /\ ~is_pinned
            /\ server_state = "MatchEnded"
         THEN /\ active_connections' = Remaining(active_connections)
              /\ RemoveLobby
         ELSE /\ active_connections' = Remaining(active_connections)
              /\ UNCHANGED <<in_registry, shutdown_fired, removals, w_notified>>

\* A cleanup that does not look at is_pinned.
cleanup_ignoring_pin ==
    IF in_registry /\ active_connections = 0
    THEN RemoveLobby /\ UNCHANGED active_connections
    ELSE UNCHANGED <<regVars, w_notified>>

\* lobby.rs 252-270.
\* A cleanup that removes an unpinned lobby without reading the counter.
cleanup_ignores_connections ==
    IF in_registry /\ ~is_pinned
    THEN RemoveLobby /\ UNCHANGED active_connections
    ELSE UNCHANGED <<regVars, w_notified>>

cleanup_if_empty_on_match_end ==
    IF in_registry /\ ~is_pinned /\ active_connections = 0
    THEN RemoveLobby /\ UNCHANGED active_connections
    ELSE UNCHANGED <<regVars, w_notified>>

\* An allow list that admits every player.
is_player_allowed_any(p) == TRUE

\* lobby.rs 60-62.
is_player_allowed(p) == allowed_players = {} \/ p \in allowed_players

(***************************************************************************)
(* create_lobby and its HTTP handler (lobby.rs 98-162, internal.rs 27-78). *)
(***************************************************************************)
\* Payload lobby_id strings of POST /lobbies, as sequences of characters.
LobbyIdPayloads == {<<"t">>, <<" ", "t">>, <<"T">>, <<"m">>, <<>>, <<" ">>}

NoRequest == [lobby_id |-> <<>>, status |-> "none"]

\* A contains_key that never finds the id.
AlreadyExistsNever(lobby_id) == FALSE

\* lobby.rs 106: lobbies.contains_key(&lobby_id), an exact comparison.
AlreadyExists(lobby_id) ==
    \/ lobby_id = DefaultLobbyId /\ in_registry
    \/ lobby_id \in other_lobbies

\* A client posts a create request.
CreateRequest(r) ==
    /\ create_req[r].status = "none"
    /\ \E id \in LobbyIdPayloads:
         create_req' = [create_req EXCEPT ![r] = [lobby_id |-> id,
                                                  status |-> "pending"]]
    /\ UNCHANGED <<simVars, snapVars, stateVars, cfgVars, authVars, mmVars, regVars, watcherVars,
                   serVars, connVars, other_lobbies, spawn_log, reg_calls,
                   w_pc, w_notified, input_q, events_sent>>

\* create_lobby_handler: 400 for an id that is empty after trim; otherwise
\* create_lobby, which checks and inserts under the write lock of the map:
\* 409 for AlreadyExists, 201 after the world task was spawned and the entry
\* inserted.  (This lobby's own id is registered throughout, for it is
\* pinned wherever requests are made.)
CreateLobbyHandler(r) ==
    /\ create_req[r].status = "pending"
    /\ LET lobby_id == Trim(create_req[r].lobby_id) IN
       IF lobby_id = <<>>
       THEN /\ create_req' = [create_req EXCEPT ![r].status = "400"]
            /\ UNCHANGED <<other_lobbies, spawn_log>>
       ELSE IF AlreadyExists(lobby_id)
       THEN /\ create_req' = [create_req EXCEPT ![r].status = "409"]
            /\ UNCHANGED <<other_lobbies, spawn_log>>
       ELSE /\ spawn_log' = Append(spawn_log, lobby_id)
            /\ other_lobbies' = other_lobbies \cup {lobby_id}
            /\ create_req' = [create_req EXCEPT ![r].status = "201"]
    /\ UNCHANGED <<simVars, snapVars, stateVars, cfgVars, authVars, mmVars, regVars, watcherVars,
                   serVars, connVars, reg_calls, w_pc, w_notified, input_q,
                   events_sent>>

(***************************************************************************)
(* Free callers of register_connection and register_disconnect.            *)
(***************************************************************************)
CallsMade == reg_calls.connects + reg_calls.disconnects

\* lobby.rs 196-205, called for this lobby's id.
CallRegisterConnection ==
    /\ CallsMade < MaxCalls
    /\ reg_calls' = [reg_calls EXCEPT !.connects = @ + 1]
    /\ IF in_registry
       THEN active_connections' = active_connections + 1
       ELSE UNCHANGED active_connections
    /\ UNCHANGED <<in_registry, shutdown_fired, removals, w_notified>>
    /\ UNCHANGED <<simVars, snapVars, stateVars, cfgVars, authVars, mmVars, watcherVars, serVars,
                   connVars, other_lobbies, spawn_log, create_req, w_pc,
                   input_q, events_sent>>

\* lobby.rs 208-250, called for this lobby's id.
CallRegisterDisconnect ==
    /\ CallsMade < MaxCalls
    /\ reg_calls' = [reg_calls EXCEPT !.disconnects = @ + 1]
    /\ register_disconnect
    /\ UNCHANGED <<simVars, snapVars, stateVars, cfgVars, authVars, mmVars, watcherVars, serVars,
                   connVars, other_lobbies, spawn_log, create_req, w_pc,
                   input_q, events_sent>>

(***************************************************************************)
(* The match-end watcher (lobby.rs 165-187).                               *)
(***************************************************************************)
\* line 172: server_state_rx.changed() returns for an unseen version.
WatcherWake ==
    /\ wt_pc = "waiting"
    /\ state_version > wt_seen
    /\ wt_seen' = state_version
    /\ wt_pc' = "woken"
    /\ UNCHANGED <<simVars, snapVars, stateVars, cfgVars, apiVars, authVars, mmVars, regVars, serVars,
                   connVars, stale_watcher, w_pc, w_notified, input_q, events_sent>>

\* lines 178-184: read the current state; MatchEnded leads to the cleanup.
WatcherRead ==
    /\ wt_pc = "woken"
    /\ wt_pc' = IF server_state = "MatchEnded" THEN "cleanup" ELSE "waiting"
    /\ UNCHANGED <<simVars, snapVars, stateVars, cfgVars, apiVars, authVars, mmVars, regVars, serVars,
                   connVars, wt_seen, stale_watcher, w_pc, w_notified, input_q,
                   events_sent>>

\* lines 182-183: cleanup_if_empty_on_match_end, then break.
WatcherCleanup ==
    /\ wt_pc = "cleanup"
    /\ cleanup_if_empty_on_match_end
    /\ wt_pc' = "done"
    /\ UNCHANGED <<simVars, snapVars, stateVars, cfgVars, apiVars, authVars, mmVars, serVars, connVars,
                   wt_seen, stale_watcher, w_pc, input_q, events_sent>>

\* The same call made by the watcher of an earlier lobby that had this id:
\* the watcher holds the id, not the entry (lobby.rs 168, 183).
StaleWatcherCleanup ==
    /\ stale_watcher
    /\ cleanup_if_empty_on_match_end
    /\ stale_watcher' = FALSE
    /\ UNCHANGED <<simVars, snapVars, stateVars, cfgVars, apiVars, authVars, mmVars, serVars, connVars,
                   wt_pc, wt_seen, w_pc, input_q, events_sent>>

(***************************************************************************)
(* The snapshot serializer (client.rs world_update_serializer).            *)
(***************************************************************************)
\* Oldest entry a tokio broadcast ring of capacity BroadcastCap still holds.
OldestRetained(log) == Max2(0, Len(log) - BroadcastCap)

\* A connection handler holds a LobbyHandle clone from ws_handler's get_lobby
\* until handle_socket returns.
HoldsHandle(c) == conn[c].pc \notin {"idle", "done"}

\* world_tx has a live Sender: the worker's clone, the registry entry's
\* handle, or the handle of a running connection handler.
WorldSenderAlive ==
    \/ w_pc # "done"
    \/ in_registry
    \/ \E c \in DOMAIN conn: HoldsHandle(c)

\* client.rs 77-82: RecvError::Lagged; the receiver moves to the oldest
\* retained update and the loop continues.
SerLagged ==
    /\ ser_pc = "recv"
    /\ ser_cursor < OldestRetained(world_log)
    /\ ser_cursor' = OldestRetained(world_log)
    /\ UNCHANGED <<simVars, snapVars, stateVars, cfgVars, apiVars, authVars, mmVars, regVars, watcherVars,
                   connVars, ser_pc, ser_item, world_latest, bytes_log, w_pc,
                   w_notified, input_q, events_sent>>

\* bootstrap_connection 284: every running handler holds a Receiver of the
\* latest-bytes watch channel from its bootstrap until handle_socket returns;
\* create_lobby (lobby.rs 118) drops its own Receiver when it returns.
LatestReceiverAlive == \E c \in DOMAIN conn: HoldsHandle(c)

\* client.rs 61-74: Ok(update); serialize; world_latest_tx.send(bytes).
\* watch::Sender::send stores nothing and returns Err when no Receiver
\* exists; the result is discarded (`let _ =`).
SerRecv ==
    /\ ser_pc = "recv"
    /\ ser_cursor >= OldestRetained(world_log)
    /\ ser_cursor < Len(world_log)
    /\ ser_item' = world_log[ser_cursor + 1]
    /\ ser_cursor' = ser_cursor + 1
    /\ world_latest' = IF LatestReceiverAlive
                       THEN world_log[ser_cursor + 1]
                       ELSE world_latest
    /\ ser_pc' = "publish"
    /\ UNCHANGED <<simVars, snapVars, stateVars, cfgVars, apiVars, authVars, mmVars, regVars, watcherVars,
                   connVars, bytes_log, w_pc, w_notified, input_q, events_sent>>

\* client.rs 75: world_bytes_tx.send(bytes).
SerBroadcast ==
    /\ ser_pc = "publish"
    /\ bytes_log' = Append(bytes_log, ser_item)
    /\ ser_pc' = "recv"
    /\ UNCHANGED <<simVars, snapVars, stateVars, cfgVars, apiVars, authVars, mmVars, regVars, watcherVars,
                   connVars, ser_cursor, ser_item, world_latest, w_pc,
                   w_notified, input_q, events_sent>>

\* client.rs 83-86: RecvError::Closed once the ring is drained and every
\* Sender of world_tx is gone.
SerClosed ==
    /\ ser_pc = "recv"
    /\ ser_cursor = Len(world_log)
    /\ ~WorldSenderAlive
    /\ ser_pc' = "done"
    /\ UNCHANGED <<simVars, snapVars, stateVars, cfgVars, apiVars, authVars, mmVars, regVars, watcherVars,
                   connVars, ser_cursor, ser_item, world_latest, bytes_log,
                   w_pc, w_notified, input_q, events_sent>>

(***************************************************************************)
(* Per-player connection ownership (LobbyHandle.player_connections).       *)
(***************************************************************************)
\* An unregister that removes the mapping whoever owns it.
unregister_player_connection_always(owners, p, token) == [owners EXCEPT ![p] = 0]

\* unregister_player_connection_if_owner(player_id, token).
unregister_player_connection_if_owner(owners, p, token) ==
    IF owners[p] = token THEN [owners EXCEPT ![p] = 0] ELSE owners

\* register_or_replace_player_connection(player_id, new_token): the map
\* after the call.
register_or_replace_player_connection(owners, p, token) ==
    [owners EXCEPT ![p] = token]

\* The connections whose shutdown signal the registration of `token` fires:
\* the previous owner of p, if there is one.
ReplacedBy(owners, p, token) ==
    IF owners[p] # 0 /\ owners[p] # token THEN {owners[p]} ELSE {}

(***************************************************************************)
(* The join handshake (client.rs read_join_handshake, clients/auth.rs).    *)
(***************************************************************************)
\* Replies of the auth service to POST /auth/verify-token: status 0 stands
\* for a transport error or timeout.
AuthIdentity(p) == [status |-> 200, body |-> "identity", user_id |-> p]
AuthFailures ==
    {[status |-> 0, body |-> "none", user_id |-> 0],
     [status |-> 200, body |-> "unparsable", user_id |-> 0],
     [status |-> 401, body |-> "session expired", user_id |-> 0],
     [status |-> 401, body |-> "invalid token", user_id |-> 0],
     [status |-> 401, body |-> "unparsable", user_id |-> 0],
     [status |-> 500, body |-> "none", user_id |-> 0]}

\* auth.rs 47-78.
verify_token(resp) ==
    LET unavailable == [ok |-> FALSE, error |-> "UpstreamUnavailable", user_id |-> 0]
    IN IF resp.status = 0 THEN unavailable
       ELSE IF resp.status >= 200 /\ resp.status < 300
       THEN IF resp.body = "identity"
            THEN [ok |-> TRUE, error |-> "none", user_id |-> resp.user_id]
            ELSE unavailable
       ELSE IF resp.status = 401
       THEN IF resp.body = "unparsable" THEN unavailable
            ELSE IF resp.body = "session expired"
            THEN [ok |-> FALSE, error |-> "SessionExpired", user_id |-> 0]
            ELSE [ok |-> FALSE, error |-> "InvalidToken", user_id |-> 0]
       ELSE unavailable

\* What the client does first on the socket: the first frame that is not a
\* Ping or Pong ("Silent": none within the timeout), the session_token of a
\* Join, and the auth service's reply to it.
JoinAttempt(frame, token, auth) == [frame |-> frame, token |-> token, auth |-> auth]

GoodJoin(p) == JoinAttempt("Join", <<"T">>, AuthIdentity(p))

JoinRejected(error, verify, code, reason) ==
    [ok |-> FALSE, error |-> error, verify |-> verify, code |-> code,
     reason |-> reason, user_id |-> 0]

\* A verify_token that takes SessionExpired for an accepted identity.
verify_outcome_lenient(token, resp) ==
    LET v == verify_token(resp)
    IN IF v.ok \/ v.error = "SessionExpired"
       THEN [ok |-> TRUE, error |-> "none", verify |-> IF v.ok THEN "Ok" ELSE v.error,
             code |-> 0, reason |-> "none",
             user_id |-> IF v.ok THEN v.user_id ELSE 7]
       ELSE JoinRejected("AuthVerify", v.error, ClosePolicy, "invalid session token")

\* client.rs 461-494: the outcome of verify_token for a well-formed token.
verify_outcome(token, resp) ==
    LET v == verify_token(resp)
    IN IF v.ok
       THEN [ok |-> TRUE, error |-> "none", verify |-> "Ok", code |-> 0,
             reason |-> "none", user_id |-> v.user_id]
       ELSE IF v.error = "InvalidToken"
       THEN JoinRejected("AuthVerify", v.error, ClosePolicy, "invalid session token")
       ELSE IF v.error = "SessionExpired"
       THEN JoinRejected("AuthVerify", v.error, ClosePolicy, "session expired")
       ELSE JoinRejected("AuthVerify", v.error, CloseError, "auth unavailable")

\* client.rs 421-509: code 0 means that no close frame is sent here.
read_join_handshake(a) ==
    CASE a.frame = "Close" -> JoinRejected("ClosedBeforeJoin", "none", 0, "none")
      [] a.frame = "RecvError" -> JoinRejected("Ws", "none", 0, "none")
      [] a.frame = "Binary" ->
            JoinRejected("JoinRequired", "none", CloseUnsupported,
                         "binary messages not supported")
      [] a.frame = "Input" ->
            JoinRejected("JoinRequired", "none", ClosePolicy, "join required")
      [] a.frame = "Malformed" ->
            JoinRejected("JoinRequired", "none", ClosePolicy, "invalid join payload")
      [] OTHER ->
            LET session_token == Trim(a.token)
            IN IF session_token = <<>> \/ Len(session_token) > MaxSessionTokenLen
               THEN JoinRejected("AuthVerify", "none", ClosePolicy,
                                 "invalid session token")
               ELSE verify_outcome(session_token, a.auth)

\* bootstrap_connection 288-299: the handshake under JOIN_HANDSHAKE_TIMEOUT.
join_with_timeout(a) ==
    IF a.frame = "Silent"
    THEN JoinRejected("JoinTimeout", "none", ClosePolicy, "join timeout")
    ELSE read_join_handshake(a)

\* handle_socket 154-168: the close frame a failed bootstrap leaves on the
\* socket.  A frame sent by the handshake closed the socket, so the
\* "bootstrap failed" frame reaches it only if none was sent before.
BootstrapClose(r) ==
    IF r.code # 0 THEN [code |-> r.code, reason |-> r.reason]
    ELSE IF r.error = "ClosedBeforeJoin" THEN [code |-> 0, reason |-> "none"]
    ELSE [code |-> ClosePolicy, reason |-> "bootstrap failed"]

\* Handshakes that fail, one for each way.
FailingJoins ==
    {JoinAttempt(f, <<>>, AuthIdentity(7)) :
        f \in {"Silent", "Close", "RecvError", "Binary", "Input", "Malformed"}}
    \cup {JoinAttempt("Join", t, AuthIdentity(7)) :
             t \in {<<>>, <<" ">>, <<"a", "b", "c">>}}
    \cup {JoinAttempt("Join", <<" ", "E">>, r) : r \in AuthFailures}

\* Everything a client may do first on its socket.
JoinAttempts == {GoodJoin(q) : q \in PlayerIds} \cup FailingJoins

(***************************************************************************)
(* The connection handler (client.rs handle_socket, bootstrap_connection,  *)
(* run_client_loop, disconnect_cleanup).  Connection c uses token c.       *)
(***************************************************************************)
\* Besides the fields of ConnCtx a connection records what it put on its
\* socket: frames (the kinds of its first FrameLogCap ServerMessage frames),
\* identities (Identity frames sent), last_gs (the ServerState of its last
\* GameState frame), close_code and close_reason (its close frame); how its
\* handshake ended (hs_error, hs_verify); and in_frame, the last input frame
\* it read.  The record of last_gs ends when the handler leaves its loop and
\* closes the socket (run_client_loop 691-699).
IdleConn == [pc |-> "idle", player_id |-> 0, can_spawn |-> FALSE,
             registered |-> FALSE, notified |-> FALSE, state_seen |-> 0,
             close_reason |-> "none", cursor |-> 0, fwd_item |-> 0,
             last_fwd |-> 0, prev_fwd |-> 0,
             frames |-> <<>>, identities |-> 0, last_gs |-> "none",
             fwd_state |-> "none", close_code |-> 0, hs_error |-> "none",
             hs_verify |-> "none", in_frame |-> NeutralInput,
             invalid_json |-> 0, fatal |-> "none"]

\* send_message 217-227: the frame is written to the socket.
LogFrame(log, kind) == IF Len(log) < FrameLogCap THEN Append(log, kind) ELSE log

\* The receiver of input_tx is dropped when world_task returns.
InputClosed == w_pc = "done"

ConnUnchanged == UNCHANGED <<simVars, snapVars, stateVars, cfgVars, apiVars, authVars, mmVars, watcherVars,
                             serVars, w_pc, events_sent>>

\* A handler that enters its main loop without the bootstrap.
WsConnectSkipsBootstrap(c) ==
    /\ conn[c].pc = "idle"
    /\ in_registry
    /\ conn' = [conn EXCEPT ![c].pc = "loop",
                            ![c].cursor = Len(bytes_log),
                            ![c].state_seen = state_version]
    /\ UNCHANGED <<player_connections, regVars, w_notified, input_q>>
    /\ ConnUnchanged

\* ws_handler 115-131 and bootstrap_connection 283-285: the lobby is found and
\* the handler subscribes to the bytes broadcast and the watch channels.
WsConnect(c) ==
    /\ conn[c].pc = "idle"
    /\ in_registry
    /\ conn' = [conn EXCEPT ![c].pc = "handshake",
                            ![c].cursor = Len(bytes_log),
                            ![c].state_seen = state_version]
    /\ UNCHANGED <<player_connections, regVars, w_notified, input_q>>
    /\ ConnUnchanged

\* ws_handler 117-126: get_lobby returns None; 404, no handler runs.
WsNotFound(c) ==
    /\ conn[c].pc = "idle"
    /\ ~in_registry
    /\ conn' = [conn EXCEPT ![c].pc = "done"]
    /\ UNCHANGED <<player_connections, regVars, w_notified, input_q>>
    /\ ConnUnchanged

\* A failed handshake that has taken the player's slot before it fails.
HandshakeFailKeepsSlot(c, attempts) ==
    /\ conn[c].pc = "handshake"
    /\ \E a \in attempts:
         LET r == join_with_timeout(a) IN
         /\ ~r.ok
         /\ conn' = [conn EXCEPT ![c].pc = "done",
                                 ![c].hs_error = r.error,
                                 ![c].hs_verify = r.verify,
                                 ![c].close_code = BootstrapClose(r).code,
                                 ![c].close_reason = BootstrapClose(r).reason]
         /\ player_connections' =
                register_or_replace_player_connection(
                    player_connections, CHOOSE p \in PlayerIds: TRUE, c)
    /\ UNCHANGED <<regVars, w_notified, input_q>>
    /\ ConnUnchanged

\* bootstrap_connection 288-299 and handle_socket 154-168: the join handshake
\* fails; the handler returns without having registered anything.
HandshakeFail(c, attempts) ==
    /\ conn[c].pc = "handshake"
    /\ \E a \in attempts:
         LET r == join_with_timeout(a) IN
         /\ ~r.ok
         /\ conn' = [conn EXCEPT ![c].pc = "done",
                                 ![c].hs_error = r.error,
                                 ![c].hs_verify = r.verify,
                                 ![c].close_code = BootstrapClose(r).code,
                                 ![c].close_reason = BootstrapClose(r).reason]
    /\ UNCHANGED <<player_connections, regVars, w_notified, input_q>>
    /\ ConnUnchanged

\* A handshake that goes on without taking the player's slot.
HandshakeOkUnregistered(c) ==
    /\ conn[c].pc = "handshake"
    /\ \E p \in PlayerIds:
         conn' = [conn EXCEPT ![c].pc = "identity", ![c].player_id = p,
                              ![c].hs_verify = "Ok"]
    /\ UNCHANGED <<player_connections, regVars, w_notified, input_q>>
    /\ ConnUnchanged

\* bootstrap_connection 288-308: the handshake succeeds and the verified
\* player_id takes the slot.
HandshakeOk(c) ==
    /\ conn[c].pc = "handshake"
    /\ \E a \in JoinAttempts:
         LET r == join_with_timeout(a)
             p == r.user_id
         IN
         /\ r.ok
         /\ player_connections' =
                register_or_replace_player_connection(player_connections, p, c)
         /\ conn' = [d \in DOMAIN conn |->
                       IF d = c
                       THEN [conn[d] EXCEPT !.pc = "identity", !.player_id = p,
                                            !.hs_verify = r.verify]
                       ELSE IF d \in ReplacedBy(player_connections, p, c)
                            THEN [conn[d] EXCEPT !.notified = TRUE]
                            ELSE conn[d]]
    /\ UNCHANGED <<regVars, w_notified, input_q>>
    /\ ConnUnchanged

\* bootstrap_connection 312-324: Identity is sent; can_spawn is computed.
SendIdentityOk(c) ==
    /\ conn[c].pc = "identity"
    /\ conn' = [conn EXCEPT ![c].pc = "join",
                            ![c].frames = LogFrame(@, "Identity"),
                            ![c].identities = @ + 1,
                            ![c].can_spawn = is_player_allowed(conn[c].player_id)]
    /\ UNCHANGED <<player_connections, regVars, w_notified, input_q>>
    /\ ConnUnchanged

\* handle_socket 158-168: Close(1008, "bootstrap failed") after an error of
\* bootstrap_connection.
BootstrapFailed(r) ==
    [r EXCEPT !.pc = "done", !.close_code = ClosePolicy,
              !.close_reason = "bootstrap failed"]

\* bootstrap_connection 315-321: sending Identity fails.
SendIdentityFail(c) ==
    /\ conn[c].pc = "identity"
    /\ player_connections' = unregister_player_connection_if_owner(
                                 player_connections, conn[c].player_id, c)
    /\ conn' = [conn EXCEPT ![c] = BootstrapFailed(@)]
    /\ UNCHANGED <<regVars, w_notified, input_q>>
    /\ ConnUnchanged

\* bootstrap_connection 326-342: input_tx.send(Join).await; it waits while the
\* channel is full and fails once the worker has dropped the receiver.
SendJoin(c) ==
    /\ conn[c].pc = "join"
    /\ IF ~conn[c].can_spawn
       THEN /\ conn' = [conn EXCEPT ![c].pc = "initial"]
            /\ UNCHANGED <<player_connections, input_q>>
       ELSE IF InputClosed
       THEN /\ player_connections' = unregister_player_connection_if_owner(
                                         player_connections, conn[c].player_id, c)
            /\ conn' = [conn EXCEPT ![c] = BootstrapFailed(@)]
            /\ UNCHANGED input_q
       ELSE /\ Len(input_q) < InputCap
            /\ input_q' = Append(input_q, JoinEv(conn[c].player_id))
            /\ conn' = [conn EXCEPT ![c].pc = "initial"]
            /\ UNCHANGED player_connections
    /\ UNCHANGED <<regVars, w_notified>>
    /\ ConnUnchanged

\* bootstrap_connection 347-349, 363-393: the initial GameState is sent.
SendInitialStateOk(c) ==
    /\ conn[c].pc = "initial"
    /\ conn' = [conn EXCEPT ![c].pc = "register",
                            ![c].frames = LogFrame(@, "GameState"),
                            ![c].last_gs = server_state]
    /\ UNCHANGED <<player_connections, regVars, w_notified, input_q>>
    /\ ConnUnchanged

\* bootstrap_connection 349-361: sending the initial state fails; Leave
\* compensates the Join (InputClosed returns before the unregister).
SendInitialStateFail(c) ==
    /\ conn[c].pc = "initial"
    /\ IF conn[c].can_spawn /\ InputClosed
       THEN UNCHANGED <<player_connections, input_q>>
       ELSE /\ IF conn[c].can_spawn
               THEN /\ Len(input_q) < InputCap
                    /\ input_q' = Append(input_q, LeaveEv(conn[c].player_id))
               ELSE UNCHANGED input_q
            /\ player_connections' = unregister_player_connection_if_owner(
                                         player_connections, conn[c].player_id, c)
    /\ conn' = [conn EXCEPT ![c] = BootstrapFailed(@)]
    /\ UNCHANGED <<regVars, w_notified>>
    /\ ConnUnchanged

\* A register_connection that counts the connection without looking the
\* lobby up.
RegisterConnectionUnchecked(c) ==
    /\ conn[c].pc = "register"
    /\ active_connections' = active_connections + 1
    /\ conn' = [conn EXCEPT ![c].pc = "loop", ![c].registered = TRUE]
    /\ UNCHANGED <<player_connections, in_registry, shutdown_fired, removals,
                   w_notified, input_q>>
    /\ ConnUnchanged

\* handle_socket 172-201: register_connection (lobby.rs 196-205).  A missing
\* lobby releases the slot and leads to the best-effort Leave.
RegisterConnection(c) ==
    /\ conn[c].pc = "register"
    /\ IF in_registry
       THEN /\ active_connections' = active_connections + 1
            /\ conn' = [conn EXCEPT ![c].pc = "loop", ![c].registered = TRUE]
            /\ UNCHANGED player_connections
       ELSE /\ player_connections' = unregister_player_connection_if_owner(
                                         player_connections, conn[c].player_id, c)
            /\ conn' = [conn EXCEPT ![c].pc = "unavailable", ![c].last_gs = "none"]
            /\ UNCHANGED active_connections
    /\ UNCHANGED <<in_registry, shutdown_fired, removals, w_notified, input_q>>
    /\ ConnUnchanged

\* handle_socket 184-199: `let _ = input_tx.send(Leave).await`, then the
\* Close(1008, "lobby unavailable") frame.
LobbyUnavailable(c) ==
    /\ conn[c].pc = "unavailable"
    /\ IF conn[c].can_spawn /\ ~InputClosed
       THEN /\ Len(input_q) < InputCap
            /\ input_q' = Append(input_q, LeaveEv(conn[c].player_id))
       ELSE UNCHANGED input_q
    /\ conn' = [conn EXCEPT ![c].pc = "done",
                            ![c].close_code = ClosePolicy,
                            ![c].close_reason = "lobby unavailable"]
    /\ UNCHANGED <<player_connections, regVars, w_notified>>
    /\ ConnUnchanged

\* A sanitize_input without the is_finite check.
sanitize_input_unchecked(input) ==
    [some |-> TRUE,
     input |-> [input EXCEPT !.thrust = ClampF(@, -1, 1),
                             !.turn = ClampF(@, -1, 1)]]

\* client.rs 520-529: None for a thrust or turn that is not finite, the
\* clamped input otherwise.
sanitize_input(input) ==
    IF ~IsFinite(input.thrust) \/ ~IsFinite(input.turn)
    THEN [some |-> FALSE, input |-> input]
    ELSE [some |-> TRUE,
          input |-> [input EXCEPT !.thrust = ClampF(@, -1, 1),
                                  !.turn = ClampF(@, -1, 1)]]

\* A handler that treats a full input channel like a closed one.
ConnRecvInputFullIsFatal(c, inputs, maxEvents) ==
    /\ conn[c].pc = "loop"
    /\ events_sent < maxEvents
    /\ events_sent' = events_sent + 1
    /\ \E i \in inputs:
         LET read == [conn EXCEPT ![c].in_frame = i]
             s == sanitize_input(i)
         IN
         IF ~conn[c].can_spawn \/ ~s.some
         THEN /\ conn' = read
              /\ UNCHANGED input_q
         ELSE IF InputClosed
         THEN /\ conn' = [read EXCEPT ![c].pc = "cleanup", ![c].last_gs = "none",
                                       ![c].fatal = "InputClosed"]
              /\ UNCHANGED input_q
         ELSE IF Len(input_q) >= InputCap
         THEN /\ conn' = [read EXCEPT ![c].pc = "cleanup", ![c].last_gs = "none",
                                       ![c].fatal = "InputClosed"]
              /\ UNCHANGED input_q
         ELSE /\ input_q' = Append(input_q, InputEv(conn[c].player_id, s.input))
              /\ conn' = read
    /\ UNCHANGED <<player_connections, regVars, w_notified>>
    /\ UNCHANGED <<simVars, snapVars, stateVars, cfgVars, apiVars, authVars, mmVars, watcherVars, serVars,
                   w_pc>>

\* run_client_loop 593-614, handle_incoming_ws 761-798, process_input_message
\* 532-556: an input frame, structured or legacy.  A spectator's input is
\* ignored; an input that is not finite is dropped; try_send fails with
\* InputClosed when the worker is gone and drops the input when the channel
\* is full.
ConnRecvInput(c, inputs, maxEvents) ==
    /\ conn[c].pc = "loop"
    /\ events_sent < maxEvents
    /\ events_sent' = events_sent + 1
    /\ \E i \in inputs:
         LET read == [conn EXCEPT ![c].in_frame = i]
             s == sanitize_input(i)
         IN
         IF ~conn[c].can_spawn \/ ~s.some
         THEN /\ conn' = read
              /\ UNCHANGED input_q
         ELSE IF InputClosed
         THEN /\ conn' = [read EXCEPT ![c].pc = "cleanup", ![c].last_gs = "none",
                                       ![c].fatal = "InputClosed"]
              /\ UNCHANGED input_q
         ELSE IF Len(input_q) >= InputCap
         THEN /\ conn' = read
              /\ UNCHANGED input_q
         ELSE /\ input_q' = Append(input_q, InputEv(conn[c].player_id, s.input))
              /\ conn' = read
    /\ UNCHANGED <<player_connections, regVars, w_notified>>
    /\ UNCHANGED <<simVars, snapVars, stateVars, cfgVars, apiVars, authVars, mmVars, watcherVars, serVars,
                   w_pc>>

\* A limit that is reached by the frame that brings the count up to it.
TooManyInvalidAtLimit(n) == n >= MaxInvalidJson

\* handle_incoming_ws 810: *invalid_json > MAX_INVALID_JSON.
TooManyInvalid(n) == n > MaxInvalidJson

\* handle_incoming_ws 798-821, run_client_loop 691-699: a text frame that
\* parses neither as ClientMessage nor as PlayerInputDto is counted; past the
\* limit the handler queues Close(1008, "too many invalid messages") and
\* leaves its loop.
ConnRecvInvalid(c) ==
    /\ conn[c].pc = "loop"
    /\ LET n == conn[c].invalid_json + 1 IN
       IF TooManyInvalid(n)
       THEN conn' = [conn EXCEPT ![c].invalid_json = n,
                                 ![c].pc = "cleanup",
                                 ![c].last_gs = "none",
                                 ![c].close_code = ClosePolicy,
                                 ![c].close_reason = "too many invalid messages"]
       ELSE conn' = [conn EXCEPT ![c].invalid_json = n]
    /\ UNCHANGED <<player_connections, regVars, w_notified, input_q>>
    /\ ConnUnchanged

\* run_client_loop 593-614, handle_incoming_ws 832-841: the client closes or
\* the socket fails; no close frame is queued.
ConnClientGone(c) ==
    /\ conn[c].pc = "loop"
    /\ conn' = [conn EXCEPT ![c].pc = "cleanup", ![c].last_gs = "none"]
    /\ UNCHANGED <<player_connections, regVars, w_notified, input_q>>
    /\ ConnUnchanged

\* run_client_loop 617-656: world_bytes_rx.recv().  Lagged moves the receiver
\* to the oldest retained entry and forwards the latest-bytes slot if it is
\* not empty; otherwise the next entry is forwarded.
ConnRecvBytes(c) ==
    /\ conn[c].pc = "loop"
    /\ conn[c].cursor < Len(bytes_log)
    /\ IF conn[c].cursor < OldestRetained(bytes_log)
       THEN conn' = [conn EXCEPT
                        ![c].cursor = OldestRetained(bytes_log),
                        ![c].fwd_item = world_latest,
                        ![c].pc = IF world_latest = 0 THEN "loop" ELSE "forward"]
       ELSE conn' = [conn EXCEPT
                        ![c].cursor = conn[c].cursor + 1,
                        ![c].fwd_item = bytes_log[conn[c].cursor + 1],
                        ![c].pc = "forward"]
    /\ UNCHANGED <<player_connections, regVars, w_notified, input_q>>
    /\ ConnUnchanged

\* A state branch that sends the state of its last GameState frame again
\* instead of reading the slot.
ConnStateChangedStale(c) ==
    /\ conn[c].pc = "loop"
    /\ state_version > conn[c].state_seen
    /\ conn' = [conn EXCEPT ![c].state_seen = state_version,
                            ![c].fwd_item = 0,
                            ![c].fwd_state = conn[c].last_gs,
                            ![c].pc = "forward"]
    /\ UNCHANGED <<player_connections, regVars, w_notified, input_q>>
    /\ ConnUnchanged

\* run_client_loop 665-670: server_state_rx.changed() returns.
ConnStateChanged(c) ==
    /\ conn[c].pc = "loop"
    /\ state_version > conn[c].state_seen
    /\ conn' = [conn EXCEPT ![c].state_seen = state_version,
                            ![c].fwd_item = 0,
                            ![c].fwd_state = server_state,
                            ![c].pc = "forward"]
    /\ UNCHANGED <<player_connections, regVars, w_notified, input_q>>
    /\ ConnUnchanged

\* forward_world_bytes 845-861 and forward_server_state 870-883: the socket
\* send completes (fwd_item = 0 is a GameState message).
ForwardOk(c) ==
    /\ conn[c].pc = "forward"
    /\ conn' = [conn EXCEPT
                   ![c].pc = "loop",
                   ![c].prev_fwd = IF conn[c].fwd_item = 0 THEN conn[c].prev_fwd
                                   ELSE conn[c].last_fwd,
                   ![c].last_fwd = IF conn[c].fwd_item = 0 THEN conn[c].last_fwd
                                   ELSE conn[c].fwd_item,
                   ![c].frames = LogFrame(@, IF conn[c].fwd_item = 0
                                             THEN "GameState" ELSE "WorldUpdate"),
                   ![c].last_gs = IF conn[c].fwd_item = 0 THEN conn[c].fwd_state
                                  ELSE conn[c].last_gs,
                   ![c].fwd_state = "none",
                   ![c].fwd_item = 0]
    /\ UNCHANGED <<player_connections, regVars, w_notified, input_q>>
    /\ ConnUnchanged

\* forward_world_bytes 862-866, forward_server_state 884-888: the send fails.
ForwardFail(c) ==
    /\ conn[c].pc = "forward"
    /\ conn' = [conn EXCEPT ![c].pc = "cleanup", ![c].fwd_item = 0,
                            ![c].fwd_state = "none", ![c].last_gs = "none"]
    /\ UNCHANGED <<player_connections, regVars, w_notified, input_q>>
    /\ ConnUnchanged

\* A shutdown branch that queues the frame and goes on looping.
ConnReplacedKeepsLooping(c) ==
    /\ conn[c].pc = "loop"
    /\ conn[c].notified
    /\ conn[c].close_reason # "connection replaced"
    /\ conn' = [conn EXCEPT ![c].close_code = ClosePolicy,
                            ![c].close_reason = "connection replaced"]
    /\ UNCHANGED <<player_connections, regVars, w_notified, input_q>>
    /\ ConnUnchanged

\* run_client_loop 680-688, 691-699: the per-player shutdown signal; the
\* Close(1008, "connection replaced") frame is queued and sent.
ConnReplaced(c) ==
    /\ conn[c].pc = "loop"
    /\ conn[c].notified
    /\ conn' = [conn EXCEPT ![c].pc = "cleanup", ![c].last_gs = "none",
                            ![c].close_code = ClosePolicy,
                            ![c].close_reason = "connection replaced"]
    /\ UNCHANGED <<player_connections, regVars, w_notified, input_q>>
    /\ ConnUnchanged

\* disconnect_cleanup 909-915: Leave is sent for a spawned player; InputClosed
\* returns before register_disconnect and the unregister.
CleanupLeave(c) ==
    /\ conn[c].pc = "cleanup"
    /\ IF ~conn[c].can_spawn
       THEN /\ conn' = [conn EXCEPT ![c].pc = "disconnect"]
            /\ UNCHANGED input_q
       ELSE IF InputClosed
       THEN /\ conn' = [conn EXCEPT ![c].pc = "done",
                                    ![c].fatal = IF @ = "none" THEN "InputClosed" ELSE @]
            /\ UNCHANGED input_q
       ELSE /\ Len(input_q) < InputCap
            /\ input_q' = Append(input_q, LeaveEv(conn[c].player_id))
            /\ conn' = [conn EXCEPT ![c].pc = "disconnect"]
    /\ UNCHANGED <<player_connections, regVars, w_notified>>
    /\ ConnUnchanged

\* disconnect_cleanup 917-925: register_disconnect if registered, then
\* unregister_player_connection_if_owner.
CleanupDisconnect(c) ==
    /\ conn[c].pc = "disconnect"
    /\ IF conn[c].registered
       THEN register_disconnect
       ELSE UNCHANGED <<regVars, w_notified>>
    /\ player_connections' = unregister_player_connection_if_owner(
                                 player_connections, conn[c].player_id, c)
    /\ conn' = [conn EXCEPT ![c].pc = "done"]
    /\ UNCHANGED input_q
    /\ ConnUnchanged

(***************************************************************************)
(* The auth server: the in-memory session store, the clock and the guest   *)
(* login, verify and logout use cases.  Each store call takes the mutex    *)
(* for itself, so a use case is one step per store call.                   *)
(***************************************************************************)
\* Uuid::new_v4 values in the order in which they are generated: no value
\* is generated twice.
SessionTokens == << <<"a">>, <<"b">> >>

\* Tokens a client may present: the generated ones and one with padding.
PresentedTokens == {<<"a">>, <<"b">>, <<" ", "a">>}

\* guest_id of login payloads (0 is rejected).
GuestIds == {0, 1, 2}

\* display_name of login payloads: a valid one and one with padding.
DisplayNames == {<<"P", "i", "l">>, <<"P", "i", "l", " ">>}

\* is_ascii_alphanumeric() over the letters used, and ' ', '_', '-'.
SafeChars == {"P", "i", "l", " ", "_", "-"}

MinDisplayNameLen == 3
MaxDisplayNameLen == 32

store_insert(s, token, session) ==
    [t \in DOMAIN s \cup {token} |-> IF t = token THEN session ELSE s[t]]

\* Option<Session>: <<>> is None.
store_get(s, token) == IF token \in DOMAIN s THEN <<s[token]>> ELSE <<>>

store_remove_trimmed(s, token) == [t \in DOMAIN s \ {Trim(token)} |-> s[t]]

store_remove(s, token) == [t \in DOMAIN s \ {token} |-> s[t]]

validate_display_name(value) ==
    /\ Len(value) >= MinDisplayNameLen
    /\ Len(value) <= MaxDisplayNameLen
    /\ Trim(value) = value
    /\ \A i \in DOMAIN value: value[i] \in SafeChars

IsExpiredAfter(session, t) == session.expires_at < t

IsExpired(session, t) == session.expires_at <= t

map_session_by_session_id(session) ==
    [user_id |-> session.session_id, session_id |-> session.session_id,
     expires_at |-> session.expires_at]

map_session(session) ==
    [user_id |-> session.guest_id, session_id |-> session.session_id,
     expires_at |-> session.expires_at]

\* A request: its use case and position, the payload, the session it holds,
\* the clock value it last saw (for a logout and a verify without session:
\* the time of its store call) and the response.
NoAuthRequest ==
    [op |-> "none", pc |-> "idle", token |-> <<>>, guest_id |-> 0,
     session |-> <<>>, at |-> 0, status |-> "none", user_id |-> 0,
     revoked |-> FALSE]

\* Requests are numbered in the order in which they reach their use case.
Arrives(r) ==
    /\ auth_req[r].pc = "idle"
    /\ \A q \in 1..(r - 1): auth_req[q].pc # "idle"

AuthUnchanged ==
    UNCHANGED <<simVars, snapVars, stateVars, cfgVars, apiVars, mmVars, regVars, watcherVars,
                serVars, connVars, w_pc, w_notified, input_q, events_sent>>

\* GuestLoginUseCase::execute up to the store call: the payload is checked,
\* the token generated and the clock read.
GuestLoginExecute(r) ==
    /\ Arrives(r)
    /\ \E g \in GuestIds, d \in DisplayNames:
         IF g = 0
         THEN /\ auth_req' = [auth_req EXCEPT ![r].op = "login", ![r].pc = "done",
                                              ![r].status = "InvalidGuestId"]
              /\ UNCHANGED issued
         ELSE IF ~validate_display_name(d)
         THEN /\ auth_req' = [auth_req EXCEPT ![r].op = "login", ![r].pc = "done",
                                              ![r].guest_id = g,
                                              ![r].status = "InvalidDisplayName"]
              /\ UNCHANGED issued
         ELSE /\ issued < Len(SessionTokens)
              /\ issued' = issued + 1
              /\ auth_req' = [auth_req EXCEPT
                                ![r].op = "login", ![r].pc = "insert",
                                ![r].guest_id = g, ![r].at = now,
                                ![r].token = SessionTokens[issued + 1],
                                ![r].session =
                                    <<[guest_id |-> g, session_id |-> 100 + issued + 1,
                                       expires_at |-> now + GuestSessionTtl]>>]
    /\ UNCHANGED <<sessions, now>>
    /\ AuthUnchanged

\* store.insert of the guest login and its response.
GuestLoginInsert(r) ==
    /\ auth_req[r].pc = "insert"
    /\ sessions' = store_insert(sessions, auth_req[r].token, auth_req[r].session[1])
    /\ auth_req' = [auth_req EXCEPT ![r].pc = "done", ![r].status = "Ok"]
    /\ UNCHANGED <<issued, now>>
    /\ AuthUnchanged

\* VerifyTokenUseCase::execute: store.get.
VerifyGet(r) ==
    /\ Arrives(r)
    /\ \E token \in PresentedTokens:
         LET session == store_get(sessions, token) IN
         auth_req' = [auth_req EXCEPT
                        ![r].op = "verify", ![r].token = token,
                        ![r].session = session, ![r].at = now,
                        ![r].pc = IF session = <<>> THEN "done" ELSE "check",
                        ![r].status = IF session = <<>> THEN "InvalidToken"
                                      ELSE "none"]
    /\ UNCHANGED <<sessions, issued, now>>
    /\ AuthUnchanged

\* VerifyTokenUseCase::execute: the expiry test against the clock.
VerifyCheck(r) ==
    /\ auth_req[r].pc = "check"
    /\ LET session == auth_req[r].session[1] IN
       IF IsExpired(session, now)
       THEN auth_req' = [auth_req EXCEPT ![r].pc = "remove", ![r].at = now]
       ELSE auth_req' = [auth_req EXCEPT ![r].pc = "done", ![r].at = now,
                                         ![r].status = "Ok",
                                         ![r].user_id = map_session(session).user_id]
    /\ UNCHANGED <<sessions, issued, now>>
    /\ AuthUnchanged

\* VerifyTokenUseCase::execute: the removal of an expired session.
VerifyRemove(r) ==
    /\ auth_req[r].pc = "remove"
    /\ sessions' = store_remove(sessions, auth_req[r].token)
    /\ auth_req' = [auth_req EXCEPT ![r].pc = "done", ![r].status = "SessionExpired"]
    /\ UNCHANGED <<issued, now>>
    /\ AuthUnchanged

\* LogoutUseCase::execute.
LogoutExecute(r) ==
    /\ Arrives(r)
    /\ \E token \in PresentedTokens:
         /\ sessions' = store_remove(sessions, token)
         /\ auth_req' = [auth_req EXCEPT
                           ![r].op = "logout", ![r].token = token, ![r].pc = "done",
                           ![r].status = "Ok", ![r].at = now,
                           ![r].revoked = (DOMAIN sessions' # DOMAIN sessions)]
    /\ UNCHANGED <<issued, now>>
    /\ AuthUnchanged

\* A second passes on the system clock.
ClockTick ==
    /\ now < MaxNow
    /\ now' = now + 1
    /\ UNCHANGED <<sessions, issued, auth_req>>
    /\ AuthUnchanged

(***************************************************************************)
(* The matchmaking server (matchmaking_server/src): the queue handler and  *)
(* Matchmaker::enqueue.  Strings are sequences of characters; the clock    *)
(* reading a WaitingPlayer, a ticket or a match id carries is the number   *)
(* of the request that made it.                                            *)
(***************************************************************************)
\* player_id and region payloads: plain, with a leading blank, blank, empty.
MmPlayerIds == {<<"a">>, <<"b">>, <<"c">>, <<" ">>}
MmRegions == {<<"e">>, <<"u">>, <<" ", "e">>, <<>>}
MmSkills == {1, 2}

QueueRequests ==
    [player_id: MmPlayerIds, player_skill: MmSkills, region: MmRegions]

NoQueueRequest == [player_id |-> <<>>, player_skill |-> 0, region |-> <<>>]

NoOutcome ==
    [status |-> "none", player_id |-> <<>>, opponent_id |-> <<>>,
     region |-> <<>>, id |-> <<>>]

\* domain/queue.rs 14-21: WaitingPlayer::new.
WaitingPlayer(request, t) ==
    [player_id |-> request.player_id, player_skill |-> request.player_skill,
     region |-> request.region, enqueued_at |-> t]

\* domain/queue.rs 25-37: "ticket-{secs}-{player}", "match-{secs}-{p}-{o}".
build_ticket_id(player_id, t) == <<"ticket", t, player_id>>
build_match_id(player_id, opponent_id, t) == <<"match", t, player_id, opponent_id>>

\* matchmaker.rs 49-53: queue.iter().enumerate().find(region == request.region);
\* 0 stands for None.
FindRegion(queue, region) ==
    IF \E i \in DOMAIN queue: queue[i].region = region
    THEN CHOOSE i \in DOMAIN queue:
            queue[i].region = region /\ \A j \in 1..(i - 1): queue[j].region # region
    ELSE 0

\* VecDeque::remove(index).
RemoveAt(queue, i) == SubSeq(queue, 1, i - 1) \o SubSeq(queue, i + 1, Len(queue))

AlreadyQueued(request) ==
    [status |-> "AlreadyQueued", player_id |-> request.player_id,
     opponent_id |-> <<>>, region |-> <<>>, id |-> <<>>]

Matched(request, opponent, t) ==
    [status |-> "Matched", player_id |-> request.player_id,
     opponent_id |-> opponent.player_id, region |-> request.region,
     id |-> build_match_id(request.player_id, opponent.player_id, t)]

Waiting(request, t) ==
    [status |-> "Waiting", player_id |-> request.player_id,
     opponent_id |-> <<>>, region |-> request.region,
     id |-> build_ticket_id(request.player_id, t)]

\* An enqueue without the test for a player that already waits.
enqueue_without_duplicate_test(queue, request, t) ==
    LET index == FindRegion(queue, request.region) IN
    IF index # 0
    THEN [queue |-> RemoveAt(queue, index),
          outcome |-> Matched(request, queue[index], t)]
    ELSE [queue |-> Append(queue, WaitingPlayer(request, t)),
          outcome |-> Waiting(request, t)]

\* An enqueue that puts the requester into the queue when it is matched.
enqueue_keeps_matched_requester(queue, request, t) ==
    IF \E i \in DOMAIN queue: queue[i].player_id = request.player_id
    THEN [queue |-> queue, outcome |-> AlreadyQueued(request)]
    ELSE LET index == FindRegion(queue, request.region) IN
         IF index # 0
         THEN [queue |-> Append(RemoveAt(queue, index), WaitingPlayer(request, t)),
               outcome |-> Matched(request, queue[index], t)]
         ELSE [queue |-> Append(queue, WaitingPlayer(request, t)),
               outcome |-> Waiting(request, t)]

\* matchmaker.rs 37-80: Matchmaker::enqueue.
enqueue(queue, request, t) ==
    IF \E i \in DOMAIN queue: queue[i].player_id = request.player_id
    THEN [queue |-> queue, outcome |-> AlreadyQueued(request)]
    ELSE LET index == FindRegion(queue, request.region) IN
         IF index # 0
         THEN [queue |-> RemoveAt(queue, index),
               outcome |-> Matched(request, queue[index], t)]
         ELSE [queue |-> Append(queue, WaitingPlayer(request, t)),
               outcome |-> Waiting(request, t)]

\* handlers/queue.rs 12-19: a blank player_id or region.
IsBlankRequest(request) ==
    Trim(request.player_id) = <<>> \/ Trim(request.region) = <<>>

MmUnchanged ==
    UNCHANGED <<simVars, snapVars, stateVars, cfgVars, apiVars, authVars, regVars,
                watcherVars, serVars, connVars, w_pc, w_notified, input_q, events_sent>>

\* handlers/queue.rs 12-19: 400, the matchmaker is not called.
QueueBadRequest ==
    /\ mm_calls < MaxEnqueues
    /\ \E request \in QueueRequests:
          /\ IsBlankRequest(request)
          /\ mm_req' = request
          /\ mm_out' = [NoOutcome EXCEPT !.status = "BadRequest"]
    /\ mm_calls' = mm_calls + 1
    /\ UNCHANGED mm_queue
    /\ MmUnchanged

\* handlers/queue.rs 21-24: matchmaker.lock().await; matchmaker.enqueue(request).
QueueEnqueue ==
    /\ mm_calls < MaxEnqueues
    /\ \E request \in QueueRequests:
          /\ ~IsBlankRequest(request)
          /\ LET r == enqueue(mm_queue, request, mm_calls + 1) IN
             /\ mm_queue' = r.queue
             /\ mm_out' = r.outcome
          /\ mm_req' = request
    /\ mm_calls' = mm_calls + 1
    /\ MmUnchanged

(***************************************************************************)
(* Initial states: the lobby right after create_lobby, spawn_lobby_        *)
(* serializer and spawn_match_end_watcher.                                 *)
(***************************************************************************)
InitLobbyAt(pc) ==
    /\ tick = 0
    /\ entities = <<>>
    /\ projectiles = <<>>
    /\ next_projectile_id = 1
    /\ match_elapsed = 0
    /\ match_ended = FALSE
    /\ w_pc = pc
    /\ w_notified = FALSE
    /\ input_q = <<>>
    /\ server_state = "Lobby"
    /\ state_version = 0
    /\ world_log = <<>>
    /\ last_snapshot = WorldUpdate(0, <<>>, <<>>)
    /\ prev_snapshot_tick = 0
    /\ snapshots_sent = 0
    /\ world_latest = 0
    /\ bytes_log = <<>>
    /\ in_registry = TRUE
    /\ active_connections = 0
    /\ shutdown_fired = 0
    /\ removals = 0
    /\ player_connections = [p \in PlayerIds |-> 0]
    /\ wt_pc = "waiting"
    /\ wt_seen = 0
    /\ stale_watcher = FALSE
    /\ ser_pc = "recv"
    /\ ser_cursor = 0
    /\ ser_item = 0
    /\ events_sent = 0
    /\ other_lobbies = {}
    /\ spawn_log = <<DefaultLobbyId>>
    /\ reg_calls = [connects |-> 0, disconnects |-> 0]
    /\ sessions = <<>>
    /\ issued = 0
    /\ now = 0
    /\ mm_queue = <<>>
    /\ mm_req = NoQueueRequest
    /\ mm_out = NoOutcome
    /\ mm_calls = 0

InitLobbyState == InitLobbyAt("start")

\* Where construction can leave the worker.  create_lobby spawns world_task
\* and drops its own watch receiver when it returns (lobby.rs 119, 125); the
\* watcher subscribes after that (internal.rs 64, server.rs 112).  A watch
\* send with no receiver fails and leaves the value as it is, so a worker
\* that runs game.rs 24 in between is asleep with ServerState still Lobby.
ConstructionOutcomes == {"start", "sleep"}

\* Match time limits in ticks: 0 (the pinned default lobby, server.rs 104) and
\* a limit reached within the horizon.
MatchLimits == {0, 2}

\* (is_pinned, allowed_players, match_time_limit) of create_lobby callers:
\* build_state's pinned open lobby without limit, create_lobby_handler's
\* unpinned lobbies (open or with an allow list), and a pinned lobby with a
\* time limit, which create_lobby accepts.
LobbyConfigs ==
    {[pinned |-> TRUE, allowed |-> {}, limit |-> 0],
     [pinned |-> FALSE, allowed |-> {}, limit |-> 2],
     [pinned |-> FALSE, allowed |-> {7}, limit |-> 2],
     [pinned |-> TRUE, allowed |-> {}, limit |-> 2]}

(***************************************************************************)
(* The worker alone, fed by arbitrary producers.                           *)
(***************************************************************************)
InitWorld ==
    /\ InitLobbyState
    /\ create_req = <<>>
    /\ auth_req = <<>>
    /\ is_pinned = TRUE
    /\ allowed_players = {}
    /\ match_time_limit \in MatchLimits
    /\ conn = <<>>

NextWorld ==
    \/ WorkerStart
    \/ WorkerRun
    \/ WorkerTick(MaxTick)
    \/ WorkerBody(SpawnPoints)
    \/ ProducerJoin
    \/ ProducerLeave
    \/ ProducerInput

SpecWorld == InitWorld /\ [][NextWorld]_vars

\* The world of the default lobby (no match time limit) with free producers,
\* followed long enough for an entity to die and come back.
InitRespawn ==
    /\ InitLobbyState
    /\ create_req = <<>>
    /\ auth_req = <<>>
    /\ is_pinned = TRUE
    /\ allowed_players = {}
    /\ match_time_limit = 0
    /\ conn = <<>>

NextRespawn ==
    \/ WorkerStart
    \/ WorkerRun
    \/ WorkerTick(RespawnMaxTick)
    \/ WorkerBody(SpawnPoints)
    \/ ProducerJoin
    \/ ProducerLeave
    \/ ProducerInput

SpecRespawn == InitRespawn /\ [][NextRespawn]_vars

(***************************************************************************)
(* Groups of actions by task.                                              *)
(***************************************************************************)
LobbySpawnPoints == {<<0, 0>>}
LobbyInputs == {NeutralInput}

WorkerNext(cap, points) ==
    \/ WorkerStart
    \/ WorkerRun
    \/ WorkerTick(cap)
    \/ WorkerBody(points)

WatcherNext ==
    \/ WatcherWake
    \/ WatcherRead
    \/ WatcherCleanup

SerializerNext ==
    \/ SerRecv
    \/ SerBroadcast

\* The one failing handshake of the lobby specifications: a silent client.
LobbyJoins == {JoinAttempt("Silent", <<>>, AuthIdentity(7))}

BootstrapNext(c) ==
    \/ WsConnect(c)
    \/ HandshakeFail(c, LobbyJoins)
    \/ HandshakeOk(c)
    \/ SendIdentityOk(c)
    \/ SendIdentityFail(c)
    \/ SendJoin(c)
    \/ SendInitialStateOk(c)
    \/ SendInitialStateFail(c)
    \/ RegisterConnection(c)

LoopNext(c) ==
    \/ ConnRecvInput(c, LobbyInputs, LobbyMaxEvents)
    \/ ConnClientGone(c)
    \/ ConnStateChanged(c)
    \/ ForwardOk(c)
    \/ ForwardFail(c)
    \/ CleanupLeave(c)
    \/ CleanupDisconnect(c)

(***************************************************************************)
(* Takeover: the pinned default lobby (server.rs build_state) with two     *)
(* connection handlers that may authenticate as the same player.           *)
(***************************************************************************)
InitTakeover ==
    /\ InitLobbyState
    /\ create_req = <<>>
    /\ auth_req = <<>>
    /\ is_pinned = TRUE
    /\ allowed_players = {}
    /\ match_time_limit = 0
    /\ conn = [c \in 1..NumConns |-> IdleConn]

NextTakeover ==
    \/ WorkerNext(LobbyMaxTick, LobbySpawnPoints)
    \/ \E c \in DOMAIN conn:
          BootstrapNext(c) \/ LoopNext(c) \/ ConnReplaced(c)

SpecTakeover == InitTakeover /\ [][NextTakeover]_vars

\* The handler's own steps are taken once they can be (the runtime polls a
\* ready task); the select of run_client_loop picks a ready branch at random,
\* so a branch that stays ready whenever the loop waits is picked eventually.
\* Client behaviour (closing, sending input) is under no obligation.
ConnFairness(c) ==
    /\ WF_vars(SendIdentityOk(c) \/ SendIdentityFail(c))
    /\ WF_vars(SendJoin(c))
    /\ WF_vars(SendInitialStateOk(c) \/ SendInitialStateFail(c))
    /\ WF_vars(RegisterConnection(c))
    /\ WF_vars(ForwardOk(c) \/ ForwardFail(c))
    /\ SF_vars(ConnReplaced(c))

FairTakeover ==
    /\ InitTakeover
    /\ [][NextTakeover]_vars
    /\ \A c \in 1..NumConns: ConnFairness(c)

(***************************************************************************)
(* Lobby lifecycle: one lobby of any configuration with its worker,        *)
(* watcher, serializer and a connection handler.                           *)
(***************************************************************************)
InitLobby ==
    /\ \E pc \in ConstructionOutcomes: InitLobbyAt(pc)
    /\ create_req = <<>>
    /\ auth_req = <<>>
    /\ \E cfg \in LobbyConfigs:
         /\ is_pinned = cfg.pinned
         /\ allowed_players = cfg.allowed
         /\ match_time_limit = cfg.limit
    /\ conn = [c \in 1..LobbyConns |-> IdleConn]

NextLobby ==
    \/ WorkerNext(LobbyMaxTick, LobbySpawnPoints)
    \/ WorkerShutdown
    \/ WatcherNext
    \/ SerializerNext
    \/ SerClosed
    \/ \E c \in DOMAIN conn:
          \/ BootstrapNext(c)
          \/ WsNotFound(c)
          \/ LobbyUnavailable(c)
          \/ LoopNext(c)
          \/ ConnRecvBytes(c)

SpecLobby == InitLobby /\ [][NextLobby]_vars

\* Two connection handlers on one unpinned lobby whose match ends after two
\* ticks: the registrations and disconnects of the two race with each other
\* and with the removal by the last disconnect or by the match-end watcher.
\* The clients complete their handshake and send no frames; the lobby's
\* allowed_player_ids name another player, so both connect as spectators
\* (register_connection counts players and spectators alike).
InitRace ==
    /\ InitLobbyState
    /\ create_req = <<>>
    /\ auth_req = <<>>
    /\ is_pinned = FALSE
    /\ allowed_players = {9}
    /\ match_time_limit = 2
    /\ conn = [c \in 1..NumConns |-> IdleConn]

NextRace ==
    \/ WorkerNext(LobbyMaxTick, LobbySpawnPoints)
    \/ WorkerShutdown
    \/ WatcherNext
    \/ \E c \in DOMAIN conn:
          \/ WsConnect(c)
          \/ WsNotFound(c)
          \/ HandshakeOk(c)
          \/ SendIdentityOk(c)
          \/ SendJoin(c)
          \/ SendInitialStateOk(c)
          \/ RegisterConnection(c)
          \/ LobbyUnavailable(c)
          \/ ConnClientGone(c)
          \/ ConnReplaced(c)
          \/ CleanupLeave(c)
          \/ CleanupDisconnect(c)

SpecRace == InitRace /\ [][NextRace]_vars

\* The watcher task is polled once its watch receiver has a new version.
FairLobby ==
    /\ InitLobby
    /\ [][NextLobby]_vars
    /\ WF_vars(WatcherNext)

(***************************************************************************)
(* Snapshot pipeline: worker, serializer and one connection handler on the *)
(* pinned default lobby.                                                   *)
(***************************************************************************)
InitPipe ==
    /\ InitLobbyState
    /\ create_req = <<>>
    /\ auth_req = <<>>
    /\ is_pinned = TRUE
    /\ allowed_players = {}
    /\ match_time_limit = 0
    /\ conn = [c \in 1..1 |-> IdleConn]

NextPipe ==
    \/ WorkerNext(PipeMaxTick, LobbySpawnPoints)
    \/ SerializerNext
    \/ SerLagged
    \/ \E c \in DOMAIN conn:
          \/ WsConnect(c)
          \/ HandshakeOk(c)
          \/ SendIdentityOk(c)
          \/ SendJoin(c)
          \/ SendInitialStateOk(c)
          \/ RegisterConnection(c)
          \/ ConnRecvBytes(c)
          \/ ConnStateChanged(c)
          \/ ForwardOk(c)
          \/ ForwardFail(c)
          \/ ConnClientGone(c)
          \/ CleanupLeave(c)
          \/ CleanupDisconnect(c)

SpecPipe == InitPipe /\ [][NextPipe]_vars

(***************************************************************************)
(* One session: the default lobby, its worker and one connection handler   *)
(* whose client may fail the handshake in every way and send any input.    *)
(***************************************************************************)
InitSession ==
    /\ InitLobbyState
    /\ create_req = <<>>
    /\ auth_req = <<>>
    /\ is_pinned = TRUE
    /\ allowed_players = {}
    /\ match_time_limit = 0
    /\ conn = [c \in 1..1 |-> IdleConn]

NextSession ==
    \/ WorkerNext(SessionMaxTick, LobbySpawnPoints)
    \/ \E c \in DOMAIN conn:
          \/ WsConnect(c)
          \/ HandshakeFail(c, FailingJoins)
          \/ HandshakeOk(c)
          \/ SendIdentityOk(c)
          \/ SendIdentityFail(c)
          \/ SendJoin(c)
          \/ SendInitialStateOk(c)
          \/ SendInitialStateFail(c)
          \/ RegisterConnection(c)
          \/ ConnRecvInput(c, RawInputs, SessionMaxEvents)
          \/ ConnRecvInvalid(c)
          \/ ConnClientGone(c)
          \/ ConnStateChanged(c)
          \/ ForwardOk(c)
          \/ ForwardFail(c)
          \/ CleanupLeave(c)
          \/ CleanupDisconnect(c)

SpecSession == InitSession /\ [][NextSession]_vars

\* The worker is a task of its own: its sleep ends and its interval fires
\* (WorkerStart, WorkerRun, WorkerTick are taken when they can be), and the
\* loop body (game.rs 70-181) has no await, so the worker does not stay in
\* it.  The connection and its client are under no obligation.
FairSession ==
    /\ InitSession
    /\ [][NextSession]_vars
    /\ WF_vars(WorkerStart)
    /\ WF_vars(WorkerRun)
    /\ WF_vars(WorkerTick(SessionMaxTick))
    /\ []<>(w_pc # "body")

(***************************************************************************)
(* The registry's directory: the pinned default lobby and create requests. *)
(***************************************************************************)
InitDirectory ==
    /\ InitLobbyState
    /\ create_req = [r \in 1..NumCreates |-> NoRequest]
    /\ auth_req = <<>>
    /\ is_pinned = TRUE
    /\ allowed_players = {}
    /\ match_time_limit = 0
    /\ conn = <<>>

NextDirectory ==
    \/ WorkerStart
    \/ WorkerRun
    \/ \E r \in DOMAIN create_req:
          \/ CreateRequest(r)
          \/ CreateLobbyHandler(r)

SpecDirectory == InitDirectory /\ [][NextDirectory]_vars

(***************************************************************************)
(* The connection counter: one lobby of any configuration with its worker  *)
(* and watcher, and free callers of the registry.                          *)
(***************************************************************************)
InitCounter ==
    /\ InitLobbyState
    /\ create_req = <<>>
    /\ auth_req = <<>>
    /\ \E cfg \in LobbyConfigs:
         /\ is_pinned = cfg.pinned
         /\ allowed_players = cfg.allowed
         /\ match_time_limit = cfg.limit
    /\ conn = <<>>

NextCounter ==
    \/ WorkerNext(LobbyMaxTick, LobbySpawnPoints)
    \/ WorkerShutdown
    \/ WatcherNext
    \/ CallRegisterConnection
    \/ CallRegisterDisconnect

SpecCounter == InitCounter /\ [][NextCounter]_vars

(***************************************************************************)
(* A lobby id that is used again: the lobby with its worker, watcher and   *)
(* one connection, and a create_lobby request for the same id once the     *)
(* lobby has been removed.                                                 *)
(***************************************************************************)
\* internal.rs 46-66 with lobby.rs 98-160: create_lobby for this id after the
\* removal (a new entry, new channels, a new world task), then the new
\* watcher.  Taken once the earlier world task has ended and no handler holds
\* the earlier handle; the earlier watcher is finished or at its cleanup.
RecreateLobby ==
    /\ ~in_registry
    /\ Len(spawn_log) < MaxLobbyLives
    /\ w_pc = "done"
    /\ wt_pc \in {"cleanup", "done"}
    /\ \A c \in DOMAIN conn: conn[c].pc \in {"idle", "done"}
    /\ \E pc \in ConstructionOutcomes: w_pc' = pc
    /\ \E cfg \in {k \in LobbyConfigs: ~k.pinned}:
         /\ is_pinned' = cfg.pinned
         /\ allowed_players' = cfg.allowed
         /\ match_time_limit' = cfg.limit
    /\ tick' = 0
    /\ entities' = <<>>
    /\ projectiles' = <<>>
    /\ next_projectile_id' = 1
    /\ match_elapsed' = 0
    /\ match_ended' = FALSE
    /\ w_notified' = FALSE
    /\ input_q' = <<>>
    /\ server_state' = "Lobby"
    /\ state_version' = 0
    /\ world_log' = <<>>
    /\ last_snapshot' = WorldUpdate(0, <<>>, <<>>)
    /\ prev_snapshot_tick' = 0
    /\ snapshots_sent' = 0
    /\ in_registry' = TRUE
    /\ active_connections' = 0
    /\ player_connections' = [p \in PlayerIds |-> 0]
    /\ stale_watcher' = (stale_watcher \/ wt_pc = "cleanup")
    /\ wt_pc' = "waiting"
    /\ wt_seen' = 0
    /\ spawn_log' = Append(spawn_log, DefaultLobbyId)
    /\ UNCHANGED <<shutdown_fired, removals, conn, other_lobbies, create_req, reg_calls,
                   authVars, mmVars, serVars, events_sent>>

NextRecreate ==
    \/ WorkerNext(LobbyMaxTick, LobbySpawnPoints)
    \/ WorkerShutdown
    \/ WatcherNext
    \/ StaleWatcherCleanup
    \/ RecreateLobby
    \/ \E c \in DOMAIN conn:
          \/ BootstrapNext(c)
          \/ WsNotFound(c)
          \/ LobbyUnavailable(c)
          \/ LoopNext(c)

SpecRecreate == InitLobby /\ [][NextRecreate]_vars

(***************************************************************************)
(* One session on the pinned lobby whose world task may panic.             *)
(***************************************************************************)
NextCrash ==
    \/ NextSession
    \/ WorkerPanics

SpecCrash == InitSession /\ [][NextCrash]_vars

(***************************************************************************)
(* One session that floods the input channel of the pinned lobby, whose    *)
(* world task may panic.                                                   *)
(***************************************************************************)
\* Input frames of the flood: valid ones.
FloodInputs == {[thrust |-> 1, turn |-> 0, shoot |-> TRUE]}

NextFlood ==
    \/ WorkerNext(SessionMaxTick, LobbySpawnPoints)
    \/ WorkerPanics
    \/ \E c \in DOMAIN conn:
          \/ WsConnect(c)
          \/ HandshakeOk(c)
          \/ SendIdentityOk(c)
          \/ SendJoin(c)
          \/ SendInitialStateOk(c)
          \/ RegisterConnection(c)
          \/ ConnRecvInput(c, FloodInputs, FloodMaxEvents)
          \/ ConnClientGone(c)
          \/ CleanupLeave(c)
          \/ CleanupDisconnect(c)

SpecFlood == InitSession /\ [][NextFlood]_vars

(***************************************************************************)
(* The auth server: concurrent login, verify and logout requests against   *)
(* one session store while the clock advances.                             *)
(***************************************************************************)
InitAuth ==
    /\ InitLobbyState
    /\ create_req = <<>>
    /\ auth_req = [r \in 1..NumAuthReqs |-> NoAuthRequest]
    /\ is_pinned = TRUE
    /\ allowed_players = {}
    /\ match_time_limit = 0
    /\ conn = <<>>

NextAuth ==
    \/ ClockTick
    \/ \E r \in DOMAIN auth_req:
          \/ GuestLoginExecute(r)
          \/ GuestLoginInsert(r)
          \/ VerifyGet(r)
          \/ VerifyCheck(r)
          \/ VerifyRemove(r)
          \/ LogoutExecute(r)

SpecAuth == InitAuth /\ [][NextAuth]_vars

\* The matchmaking server alone.
InitMatch ==
    /\ InitLobbyState
    /\ create_req = <<>>
    /\ auth_req = <<>>
    /\ is_pinned = TRUE
    /\ allowed_players = {}
    /\ match_time_limit = 0
    /\ conn = <<>>

NextMatch ==
    \/ QueueBadRequest
    \/ QueueEnqueue

SpecMatch == InitMatch /\ [][NextMatch]_vars

(***************************************************************************)
(* Claims about the simulation worker.                                     *)
(***************************************************************************)

\* C9: the WorldUpdates of a lobby carry ticks 1, 2, 3, ...: the first one sent
\* has tick 1 and each later one has the tick of the one before it plus 1.
C9_SnapshotTicksConsecutive ==
    snapshots_sent >= 1 =>
        /\ last_snapshot.tick = prev_snapshot_tick + 1
        /\ (snapshots_sent = 1 => last_snapshot.tick = 1)

\* Several snapshots were sent, players joined, and the match has ended.
C9_Witness ==
    /\ snapshots_sent >= 3
    /\ match_ended
    /\ entities # <<>>

\* C10: every entity listed in a published WorldUpdate is, at publication, an
\* alive entity of the worker with hp > 0, and every listed projectile is a
\* projectile of the worker with ttl > 0.
C10_SnapshotOnlyLive ==
    snapshots_sent >= 1 =>
        /\ \A k \in 1..Len(last_snapshot.entities):
              \E i \in 1..Len(entities):
                 /\ EntitySnapshot(entities[i]) = last_snapshot.entities[k]
                 /\ entities[i].alive
                 /\ entities[i].hp > 0
        /\ \A k \in 1..Len(last_snapshot.projectiles):
              \E j \in 1..Len(projectiles):
                 /\ ProjectileSnapshot(projectiles[j]) = last_snapshot.projectiles[k]
                 /\ projectiles[j].ttl > 0

\* A snapshot was published while a dead entity exists beside a live one.
C10_Witness ==
    /\ snapshots_sent >= 1
    /\ \E i \in 1..Len(entities): ~entities[i].alive
    /\ Len(last_snapshot.entities) >= 1
    /\ Len(last_snapshot.entities) < Len(entities)

(***************************************************************************)
(* Claims about connection takeover.                                       *)
(***************************************************************************)
HasEntity(p) == \E i \in 1..Len(entities): entities[i].id = p

\* Connection a was replaced and has finished; connection b, same player, is
\* in its main loop as a spawned player; the worker has drained every event.
TakeoverSettled(a, b) ==
    /\ a # b
    /\ conn[a].player_id = conn[b].player_id
    /\ conn[a].close_reason = "connection replaced"
    /\ conn[a].pc = "done"
    /\ conn[b].pc = "loop"
    /\ conn[b].can_spawn
    /\ input_q = <<>>
    /\ w_pc = "select"

\* C1: after a takeover, once the replaced connection has finished and the
\* worker has drained its queue, the worker still holds an entity for the
\* player of the connection that took over.
C1_EntityKeptAfterTakeover ==
    \A a, b \in DOMAIN conn:
        TakeoverSettled(a, b) => HasEntity(conn[b].player_id)

\* Past the handshake and not yet terminating.
Active(c) ==
    conn[c].pc \in {"identity", "join", "initial", "register", "loop", "forward"}

\* C2 as stated: any two simultaneously active connections have distinct
\* player_ids.
C2_ActiveIdsDistinct ==
    \A a, b \in DOMAIN conn:
        (a # b /\ Active(a) /\ Active(b)) => conn[a].player_id # conn[b].player_id

\* C2: every active connection either owns the slot of its player_id or has
\* had its shutdown signal fired; so of two active connections with one
\* player_id at most one has not been told to terminate.
C2_ActiveOwnerOrSignalled ==
    /\ \A c \in DOMAIN conn:
         Active(c) => \/ player_connections[conn[c].player_id] = c
                      \/ conn[c].notified
    /\ \A a, b \in DOMAIN conn:
         (a # b /\ Active(a) /\ Active(b)
              /\ conn[a].player_id = conn[b].player_id)
            => (conn[a].notified \/ conn[b].notified)

C2_Witness ==
    \E a, b \in DOMAIN conn:
        /\ a # b
        /\ conn[a].pc = "loop" /\ conn[b].pc = "loop"
        /\ conn[a].player_id = conn[b].player_id
        /\ conn[a].notified /\ ~conn[b].notified
        /\ player_connections[conn[b].player_id] = b

\* The handler has left bootstrap and the main loop for good.
Terminating(c) == conn[c].pc \in {"cleanup", "disconnect", "done"}

\* A bounded send on the input channel waits for the worker to drain it.
BlockedOnInput(c) ==
    /\ conn[c].pc \in {"join", "initial"}
    /\ Len(input_q) = InputCap

C8_OneEntityPerPlayer ==
    w_pc = "select" =>
        \A i, j \in 1..Len(entities):
            i # j => entities[i].id # entities[j].id

(***************************************************************************)
(* Claims about the snapshot pipeline.                                     *)
(***************************************************************************)
\* C4: the ticks of the WorldUpdate frames written to a connection's socket
\* are strictly increasing.
C4_ForwardedTicksIncrease ==
    \A c \in DOMAIN conn:
        conn[c].last_fwd = 0 \/ conn[c].prev_fwd < conn[c].last_fwd

(***************************************************************************)
(* Claims about the lobby lifecycle.                                       *)
(***************************************************************************)
\* Unpinned, MatchEnded, no registered connection, still in the registry.
EmptyAfterMatchEnd ==
    /\ in_registry
    /\ ~is_pinned
    /\ server_state = "MatchEnded"
    /\ active_connections = 0

\* C5: an unpinned lobby that is empty in MatchEnded is eventually removed
\* (or gets a new connection first); the entry is removed and the shutdown
\* signal fired at most once and together; once removed the lobby stays
\* absent and the registry's record of it no longer changes.
C5_RemovedExactlyOnce ==
    /\ EmptyAfterMatchEnd ~> (~in_registry \/ active_connections > 0)
    /\ [](removals <= 1 /\ shutdown_fired = removals
            /\ (in_registry <=> removals = 0))
    /\ [][~in_registry => /\ ~in_registry'
                          /\ UNCHANGED <<active_connections, shutdown_fired,
                                         removals>>]_vars

C5_Witness ==
    /\ ~in_registry
    /\ removals = 1
    /\ shutdown_fired = 1
    /\ \E c \in DOMAIN conn: conn[c].registered /\ conn[c].pc = "done"
    /\ wt_pc = "done"

\* C6: once the shutdown signal has been fired, the worker has left its loop
\* or holds the wake-up that makes it leave.
C6_ShutdownReachesWorker ==
    (shutdown_fired > 0 /\ w_pc # "done") => w_notified

\* C7: a pinned lobby stays in the registry and its shutdown signal is never
\* fired.
C7_PinnedNeverRemoved ==
    is_pinned => (in_registry /\ shutdown_fired = 0 /\ removals = 0)

C7_Witness ==
    /\ is_pinned
    /\ server_state = "MatchEnded"
    /\ active_connections = 0
    /\ wt_pc = "done"
    /\ \E c \in DOMAIN conn: conn[c].registered /\ conn[c].pc = "done"

(***************************************************************************)
(* Claims about what a connection writes to its socket.                    *)
(***************************************************************************)
\* The handler is about to write, or has written, a frame of its main loop.
WritesLoopFrame(c) == conn[c].pc = "forward" \/ conn[c].last_fwd # 0

\* C11: the first ServerMessage frame on a connection's socket is Identity
\* and the second is the initial GameState; a WorldUpdate or a later
\* GameState is written only after these two, and Identity is sent at most
\* once (once on every connection that gets past its bootstrap).
C11_IdentityThenStateThenUpdates ==
    \A c \in DOMAIN conn:
        /\ conn[c].identities <= 1
        /\ \A i \in DOMAIN conn[c].frames:
              conn[c].frames[i] = "Identity" <=> i = 1
        /\ (Len(conn[c].frames) >= 2 => conn[c].frames[2] = "GameState")
        /\ (conn[c].identities = 1 <=> Len(conn[c].frames) >= 1)
        /\ (conn[c].pc \in {"register", "loop", "forward"} =>
               Len(conn[c].frames) >= 2)
        /\ (WritesLoopFrame(c) => Len(conn[c].frames) >= 2)

\* A connection that sent Identity and the initial state, then forwarded a
\* WorldUpdate and a GameState change, and is back in its loop.
C11_Witness ==
    \E c \in DOMAIN conn:
        /\ conn[c].pc = "loop"
        /\ Len(conn[c].frames) >= 2
        /\ conn[c].frames[1] = "Identity"
        /\ conn[c].frames[2] = "GameState"
        /\ conn[c].last_fwd >= 1
        /\ conn[c].state_seen = state_version
        /\ conn[c].last_gs = "MatchEnded"

\* The step in which connection c's join handshake fails.
HandshakeFails(c) == conn[c].hs_error = "none" /\ conn'[c].hs_error # "none"

\* The connection holds nothing of the lobby: it is not counted, owns no
\* player slot and has no identity.
HoldsNothing(c) ==
    /\ ~conn[c].registered
    /\ conn[c].player_id = 0
    /\ \A p \in DOMAIN player_connections: player_connections[p] # c

\* C12: a failed join handshake (timeout, close or receive error, binary,
\* Input or malformed first frame, empty or oversized token, InvalidToken,
\* SessionExpired, UpstreamUnavailable) leaves the lobby as it was: the step
\* that fails enqueues no event and changes neither active_connections nor
\* player_connections nor the registry, and the handler then is done holding
\* nothing, so that with this connection alone the lobby stays untouched.
C12_HandshakeFailureLeavesLobby ==
    /\ [][\A c \in DOMAIN conn:
            HandshakeFails(c) =>
                /\ UNCHANGED <<input_q, events_sent, active_connections,
                               player_connections, in_registry, shutdown_fired>>
                /\ conn'[c].pc = "done"]_vars
    /\ [](\A c \in DOMAIN conn:
            conn[c].hs_error # "none" =>
                /\ conn[c].pc = "done"
                /\ HoldsNothing(c)
                /\ input_q = <<>>
                /\ events_sent = 0
                /\ active_connections = 0
                /\ entities = <<>>)

\* A handshake has failed on the auth service being unreachable while the
\* worker went on ticking.
C12_Witness ==
    \E c \in DOMAIN conn:
        /\ conn[c].hs_error = "AuthVerify"
        /\ conn[c].hs_verify = "UpstreamUnavailable"
        /\ conn[c].close_code = CloseError
        /\ tick >= 1
        /\ active_connections = 0
        /\ input_q = <<>>

\* What connection c has on its socket after a verification that failed: the
\* close frame with `code` and `reason`, and no ServerMessage frame.
ClosedUnidentified(c, code, reason) ==
    /\ conn[c].close_code = code
    /\ conn[c].close_reason = reason
    /\ conn[c].identities = 0
    /\ conn[c].frames = <<>>
    /\ conn[c].pc = "done"

\* C13: when verify_token returns InvalidToken or SessionExpired the handler
\* closes with 1008 ("invalid session token", "session expired"), when it
\* returns UpstreamUnavailable with 1011; no Identity frame is sent on such a
\* connection, and an Identity is only ever sent after verify_token accepted
\* the token.
C13_VerifyFailureCloses ==
    \A c \in DOMAIN conn:
        /\ (conn[c].hs_verify = "InvalidToken" =>
                ClosedUnidentified(c, ClosePolicy, "invalid session token"))
        /\ (conn[c].hs_verify = "SessionExpired" =>
                ClosedUnidentified(c, ClosePolicy, "session expired"))
        /\ (conn[c].hs_verify = "UpstreamUnavailable" =>
                ClosedUnidentified(c, CloseError, "auth unavailable"))
        /\ (conn[c].identities > 0 => conn[c].hs_verify = "Ok")

\* The token " E" was trimmed to "E", refused as expired, and the socket
\* closed with 1008 "session expired" while the worker runs.
C13_Witness ==
    \E c \in DOMAIN conn:
        /\ conn[c].hs_verify = "SessionExpired"
        /\ conn[c].close_code = ClosePolicy
        /\ conn[c].close_reason = "session expired"
        /\ w_pc \in {"select", "body"}

\* The lobby has an allow list, and connection c is authenticated as a player
\* that is not on it.
Outsider(c) ==
    /\ allowed_players # {}
    /\ conn[c].player_id # 0
    /\ conn[c].player_id \notin allowed_players

\* C14: in a lobby with a non-empty allowed_players set a connection
\* authenticated as a player outside the set gets its Identity frame but no
\* event of it reaches the worker: every Join, Input and Leave in the input
\* channel and every entity belongs to an allowed player, and an input frame
\* read while only such connections are in their loop changes neither the
\* input channel nor the simulation.
C14_SpectatorNeverSpawns ==
    /\ [](allowed_players # {} =>
            /\ \A i \in DOMAIN input_q: input_q[i].player_id \in allowed_players
            /\ \A i \in DOMAIN entities: entities[i].id \in allowed_players)
    /\ [](\A c \in DOMAIN conn:
            Outsider(c) =>
                /\ ~conn[c].can_spawn
                /\ (conn[c].pc \in {"join", "initial", "register", "loop", "forward",
                                    "cleanup", "disconnect"}
                        => conn[c].identities = 1))
    /\ [][(/\ events_sent' # events_sent
           /\ \A c \in DOMAIN conn: conn[c].pc = "loop" => Outsider(c))
          => UNCHANGED <<simVars, input_q>>]_vars

\* Player 8 sits in the loop of a lobby that allows only player 7, has sent
\* an input frame, got its Identity, and the worker has ticked with no entity.
C14_Witness ==
    \E c \in DOMAIN conn:
        /\ Outsider(c)
        /\ conn[c].pc = "loop"
        /\ conn[c].identities = 1
        /\ events_sent >= 1
        /\ tick >= 1
        /\ entities = <<>>
        /\ input_q = <<>>

\* A PlayerInput the worker may be given: thrust and turn finite, in [-1, 1].
InRange(input) ==
    /\ IsFinite(input.thrust) /\ -1 <= input.thrust /\ input.thrust <= 1
    /\ IsFinite(input.turn) /\ -1 <= input.turn /\ input.turn <= 1

\* Connection c reads an input frame in this step (conn'[c].in_frame).
ReadsInput(c) ==
    /\ conn[c].pc = "loop"
    /\ events_sent' = events_sent + 1
    /\ \A d \in DOMAIN conn \ {c}: conn'[d] = conn[d]

\* C15: every Input event a handler enqueues has finite thrust and turn in
\* [-1, 1], and so has every input the worker applies to an entity; a frame
\* whose thrust or turn is NaN or infinite enqueues nothing, and a finite
\* frame is enqueued clamped or not at all.
C15_EnqueuedInputsSanitized ==
    /\ [](/\ \A i \in DOMAIN input_q:
                input_q[i].type = "Input" => InRange(input_q[i].input)
          /\ \A i \in DOMAIN entities: InRange(entities[i].last_input))
    /\ [][\A c \in DOMAIN conn:
            ReadsInput(c) =>
                LET f == conn'[c].in_frame IN
                IF ~IsFinite(f.thrust) \/ ~IsFinite(f.turn)
                THEN UNCHANGED input_q
                ELSE \/ UNCHANGED input_q
                     \/ input_q' = Append(input_q,
                            InputEv(conn[c].player_id,
                                    [thrust |-> ClampF(f.thrust, -1, 1),
                                     turn |-> ClampF(f.turn, -1, 1),
                                     shoot |-> f.shoot]))]_vars

\* The frame (5, -3) sits in the channel as (1, -1), and the NaN frame read
\* after it has left the channel as it was.
C15_Witness ==
    \E c \in DOMAIN conn:
        /\ conn[c].pc = "loop"
        /\ conn[c].in_frame.thrust = NaN
        /\ events_sent = 2
        /\ Len(input_q) >= 1
        /\ input_q[Len(input_q)] =
               InputEv(conn[c].player_id, [thrust |-> 1, turn |-> -1, shoot |-> TRUE])

\* C16: the worker keeps ticking whatever the connection does.  With the
\* worker scheduled whenever it can run and no obligation on the connection
\* or its client, the tick counter never goes back and reaches the bound of
\* the model in every behaviour: those where the handler stays blocked on its
\* socket, those where the input channel is full, and all of them with no
\* subscriber on world_tx.
C16_WorkerKeepsTicking ==
    /\ [][tick' >= tick]_vars
    /\ <>[](tick = SessionMaxTick)

\* The handler is still blocked writing to its socket when the worker has
\* ticked up to the bound.
C16_Witness ==
    \E c \in DOMAIN conn:
        /\ conn[c].pc = "forward"
        /\ tick = SessionMaxTick
        /\ snapshots_sent = SessionMaxTick

\* The place of a ServerState on Lobby -> MatchStarting -> MatchRunning ->
\* MatchEnded.
StateRank(s) ==
    CASE s = "Lobby" -> 0
      [] s = "MatchStarting" -> 1
      [] s = "MatchRunning" -> 2
      [] s = "MatchEnded" -> 3

\* C17: the published ServerState of a lobby only moves forward along
\* Lobby -> MatchStarting -> MatchRunning -> MatchEnded: no step takes it to
\* an earlier state, MatchEnded is entered from MatchRunning only and never
\* left, the channel starts at Lobby, and every step that writes the channel
\* is a step of the simulation worker.
C17_ServerStateForwardOnly ==
    /\ [](state_version = 0 => server_state = "Lobby")
    /\ [][/\ StateRank(server_state') >= StateRank(server_state)
          /\ (server_state = "MatchEnded" => server_state' = "MatchEnded")
          /\ (server_state' = "MatchEnded" /\ server_state # "MatchEnded"
                 => server_state = "MatchRunning")
          /\ (state_version' # state_version =>
                 /\ server_state' # server_state
                 /\ w_pc \in {"start", "sleep", "select"}
                 /\ w_pc' # w_pc)
          /\ (server_state' # server_state => state_version' = state_version + 1)
         ]_vars

\* The lobby went through all four states and a tick followed the end.
C17_Witness ==
    /\ server_state = "MatchEnded"
    /\ state_version = 3
    /\ match_ended
    /\ tick >= 2

\* The step in which connection c's loop takes its server-state branch.
ObservesState(c) ==
    /\ conn[c].pc = "loop"
    /\ conn'[c].pc = "forward"
    /\ conn'[c].fwd_item = 0

\* C18 as stated: a GameState frame for every transition, that is, each
\* frame of the loop answers exactly one transition of the lobby's state.
C18_FrameForEveryTransition ==
    [][\A c \in DOMAIN conn:
          ObservesState(c) => conn'[c].state_seen = conn[c].state_seen + 1]_vars

\* C18 (amended): on a change of the server state a connection in its main
\* loop reads the single-slot state and sends what it holds then, one frame
\* for all the transitions since its last read; a connection in its loop that
\* has seen the latest version has the current ServerState as its last
\* GameState frame, the initial one included.
C18_LatestStateForwarded ==
    /\ [](\A c \in DOMAIN conn:
            /\ (conn[c].pc = "loop" /\ conn[c].state_seen = state_version
                    => conn[c].last_gs = server_state)
            /\ (conn[c].pc = "forward" /\ conn[c].fwd_item = 0
                /\ conn[c].state_seen = state_version
                    => conn[c].fwd_state = server_state))
    /\ [][\A c \in DOMAIN conn:
            ObservesState(c) =>
                /\ conn[c].state_seen < state_version
                /\ conn'[c].state_seen = state_version
                /\ conn'[c].fwd_state = server_state]_vars

\* The connection has seen all three transitions of the lobby, the last of
\* them as a GameState frame sent from its loop.
C18_Witness ==
    \E c \in DOMAIN conn:
        /\ conn[c].pc = "loop"
        /\ conn[c].fwd_state = "none"
        /\ state_version = 3
        /\ conn[c].state_seen = 3
        /\ conn[c].last_gs = "MatchEnded"
        /\ server_state = "MatchEnded"

\* The ids in the registry's map: this lobby's and those created by request.
Registered == (IF in_registry THEN {DefaultLobbyId} ELSE {}) \cup other_lobbies

\* The requests answered with `status` for the id `id` (after trim).
Answered(id, status) ==
    {r \in DOMAIN create_req:
        create_req[r].status = status /\ Trim(create_req[r].lobby_id) = id}

\* C19: create_lobby with an id that is registered (compared as an exact
\* string) returns AlreadyExists and changes nothing: the entry stays and no
\* worker is spawned; with an id that is not registered it succeeds with
\* 201, registers the id and spawns one worker.  So no id has two workers,
\* and of the creates of one id exactly one succeeds (none for the id of the
\* lobby that exists from the start).
C19_CreateExistingRejected ==
    /\ [](/\ \A i, j \in DOMAIN spawn_log: i # j => spawn_log[i] # spawn_log[j]
          /\ {spawn_log[i] : i \in DOMAIN spawn_log} = Registered
          /\ \A r \in DOMAIN create_req:
                /\ (create_req[r].status \in {"201", "409"} =>
                       Trim(create_req[r].lobby_id) \in Registered)
                /\ (create_req[r].status \in {"201", "409"} =>
                       LET id == Trim(create_req[r].lobby_id) IN
                       Cardinality(Answered(id, "201")) =
                           IF id = DefaultLobbyId THEN 0 ELSE 1))
    /\ [][\A r \in DOMAIN create_req:
            LET id == Trim(create_req[r].lobby_id) IN
            /\ (create_req[r].status = "pending" /\ create_req'[r].status = "409" =>
                   /\ id \in Registered
                   /\ UNCHANGED <<other_lobbies, spawn_log, regVars, w_pc, stateVars>>)
            /\ (create_req[r].status = "pending" /\ create_req'[r].status = "201" =>
                   /\ id \notin Registered
                   /\ other_lobbies' = other_lobbies \cup {id}
                   /\ spawn_log' = Append(spawn_log, id))
            /\ (create_req[r].status = "pending" /\ create_req'[r].status # "pending" =>
                   (create_req'[r].status = "409" <=> id \in Registered))
         ]_vars

\* Two creates of "m" were answered 201 and 409, and a create of "T" was
\* answered 201 beside the registered "t".
C19_Witness ==
    /\ Cardinality(Answered(<<"m">>, "201")) = 1
    /\ Cardinality(Answered(<<"m">>, "409")) = 1
    /\ Cardinality(Answered(<<"T">>, "201")) = 1
    /\ DefaultLobbyId \in Registered
    /\ Len(spawn_log) = 3

\* The step is a call of register_disconnect that finds the lobby.
DisconnectCall ==
    /\ reg_calls'.disconnects = reg_calls.disconnects + 1
    /\ in_registry

\* C20: register_disconnect never takes active_connections below 0, whatever
\* the order of the calls of register_connection and register_disconnect: a
\* call that finds the count at 0 leaves it at 0, any other call takes 1 off.
C20_DisconnectSaturatesAtZero ==
    /\ [](active_connections \in Nat)
    /\ [][DisconnectCall =>
            active_connections' =
                IF active_connections = 0 THEN 0 ELSE active_connections - 1]_vars
    /\ [][reg_calls'.connects = reg_calls.connects + 1 /\ in_registry =>
            active_connections' = active_connections + 1]_vars

\* More disconnects than connections were registered on a lobby that is
\* still there, and the count is 0.
C20_Witness ==
    /\ in_registry
    /\ reg_calls.disconnects > reg_calls.connects
    /\ reg_calls.connects >= 1
    /\ active_connections = 0

\* The step in which connection c's handler calls
\* unregister_player_connection_if_owner: at the end of disconnect_cleanup, or
\* on one of the failure paths after its registration (a failed send of the
\* initial state returns before the call when its Leave finds the input
\* channel closed).
Unregisters(c) ==
    /\ conn[c].player_id # 0
    /\ conn'[c].pc # conn[c].pc
    /\ \/ conn[c].pc = "disconnect"
       \/ conn[c].pc = "register" /\ conn'[c].pc = "unavailable"
       \/ conn[c].pc \in {"identity", "join"} /\ conn'[c].pc = "done"
       \/ /\ conn[c].pc = "initial" /\ conn'[c].pc = "done"
          /\ ~(conn[c].can_spawn /\ InputClosed)

\* C21: unregister_player_connection_if_owner removes the mapping of a
\* player_id only when the stored token is the caller's: a handler's call
\* leaves the map as it is when another connection owns the slot and clears
\* the slot when the caller owns it, and no step clears a slot that belongs to
\* a connection other than the one taking the step.
C21_UnregisterOnlyOwner ==
    /\ [][\A c \in DOMAIN conn:
            Unregisters(c) =>
                LET p == conn[c].player_id IN
                IF player_connections[p] = c
                THEN player_connections' = [player_connections EXCEPT ![p] = 0]
                ELSE UNCHANGED player_connections]_vars
    /\ [][\A p \in DOMAIN player_connections:
            player_connections[p] # 0 /\ player_connections'[p] = 0 =>
                LET c == player_connections[p] IN
                /\ conn[c].player_id = p
                /\ conn'[c].pc # conn[c].pc]_vars

\* The replaced connection has run its whole cleanup, and the connection that
\* replaced it is in its loop and still owns the player's slot.
C21_Witness ==
    \E c, d \in DOMAIN conn:
        /\ c # d
        /\ conn[c].player_id = conn[d].player_id
        /\ conn[c].pc = "done"
        /\ conn[c].registered
        /\ conn[c].close_reason = "connection replaced"
        /\ conn[d].pc = "loop"
        /\ player_connections[conn[d].player_id] = d

\* The world after the events q[i], q[i + 1], ... were applied one after the
\* other, each to the result of the one before.
RECURSIVE AppliedFrom(_, _, _, _)
AppliedFrom(w, q, i, pos) ==
    IF i > Len(q) THEN w
    ELSE AppliedFrom(ApplyEvent(w, q[i], pos), q, i + 1, pos)

\* The entities and projectiles a loop body leaves when it applies the whole
\* queue in enqueue order before it steps the simulation.
AfterOrderedDrain(posJoin, posRespawn) ==
    LET w == AppliedFrom([entities |-> entities, projectiles |-> projectiles],
                         input_q, 1, posJoin)
    IN tick_projectiles(StepEntities(w.entities, posRespawn), w.projectiles,
                        next_projectile_id)

\* C22: the events on the input sink are applied in enqueue order whoever
\* sent them.  Every send puts its event behind all the events that wait;
\* the drain of a tick applies all the waiting events, first to last, and
\* leaves none for a later tick; nothing else touches the queue.
C22_EventsAppliedInOrder ==
    [][/\ (w_pc' = w_pc /\ input_q' # input_q =>
              /\ Len(input_q') = Len(input_q) + 1
              /\ SubSeq(input_q', 1, Len(input_q)) = input_q)
       /\ (w_pc' # w_pc /\ input_q' # input_q =>
              w_pc = "body" /\ input_q' = <<>>)
       /\ (w_pc = "body" /\ w_pc' # w_pc =>
              /\ input_q' = <<>>
              /\ \E posJoin \in SpawnPoints, posRespawn \in SpawnPoints:
                    LET r == AfterOrderedDrain(posJoin, posRespawn) IN
                    /\ entities' = r.entities
                    /\ projectiles' = r.projectiles)
      ]_vars

\* After some ticks the worker is about to drain a queue in which Leave{p}
\* of one producer waits before Join{p} of another, with an entity of p in
\* the world: applied in order they leave p with a new entity, the other way
\* round with none.
C22_Witness ==
    /\ w_pc = "body"
    /\ tick >= 1
    /\ Len(input_q) >= 2
    /\ input_q[1].type = "Leave"
    /\ input_q[2].type = "Join"
    /\ input_q[1].player_id = input_q[2].player_id
    /\ \E i \in DOMAIN entities: entities[i].id = input_q[1].player_id

\* C23: a connection in its main loop stays connected through its first 10
\* unparseable text frames, counted over its whole life; the 11th makes the
\* handler leave its loop for the cleanup with Close(1008, "too many invalid
\* messages"), and no other count does.
C23_InvalidFrameLimit ==
    /\ [](\A c \in DOMAIN conn:
            /\ (conn[c].pc \in {"loop", "forward"} =>
                   conn[c].invalid_json <= MaxInvalidJson)
            /\ (conn[c].close_reason = "too many invalid messages" <=>
                   conn[c].invalid_json = MaxInvalidJson + 1)
            /\ (conn[c].invalid_json = MaxInvalidJson + 1 =>
                   /\ conn[c].close_code = ClosePolicy
                   /\ conn[c].pc \in {"cleanup", "disconnect", "done"}))
    /\ [][\A c \in DOMAIN conn:
            conn'[c].invalid_json # conn[c].invalid_json =>
                /\ conn[c].pc = "loop"
                /\ conn'[c].invalid_json = conn[c].invalid_json + 1
                /\ conn'[c].pc = IF conn[c].invalid_json < MaxInvalidJson
                                THEN "loop" ELSE "cleanup"]_vars

\* The 11th unparseable frame closed a registered connection, and its
\* cleanup has run through register_disconnect.
C23_Witness ==
    \E c \in DOMAIN conn:
        /\ conn[c].invalid_json = MaxInvalidJson + 1
        /\ conn[c].close_reason = "too many invalid messages"
        /\ conn[c].registered
        /\ conn[c].pc = "done"
        /\ active_connections = 0
        /\ tick >= 1


(***************************************************************************)
(* Claims about the auth server.                                           *)
(***************************************************************************)
\* The login requests that generated this token (at most one).
LoginsOf(token) ==
    {r \in DOMAIN auth_req: auth_req[r].op = "login" /\ auth_req[r].token = token}

\* The session the guest login built for this token.
IssuedSession(token) == auth_req[CHOOSE r \in LoginsOf(token): TRUE].session[1]

\* Request r is a verify that has made its store.get.
Verifies(r) == auth_req[r].op = "verify"

\* Request r makes the first store call of the given use case in this step.
Starts(r, op) == auth_req[r].pc = "idle" /\ auth_req'[r].op = op

\* C24: a token that verifies successfully yields the user_id of its guest
\* login on every verify that finds the session and reads the clock before
\* its expiry time; a stored session is never modified, and the step in which
\* a verify succeeds leaves the store as it is.
C24_VerifyYieldsSameUser ==
    /\ [](\A r \in DOMAIN auth_req:
            Verifies(r) /\ auth_req[r].status = "Ok"
                => /\ LoginsOf(auth_req[r].token) # {}
                   /\ auth_req[r].user_id = IssuedSession(auth_req[r].token).guest_id)
    /\ [](\A t \in DOMAIN sessions:
            LoginsOf(t) # {} /\ sessions[t] = IssuedSession(t))
    /\ [][\A r \in DOMAIN auth_req:
            /\ Starts(r, "verify") /\ auth_req'[r].token \in DOMAIN sessions
                   => /\ auth_req'[r].pc = "check"
                      /\ auth_req'[r].session = <<sessions[auth_req'[r].token]>>
                      /\ sessions' = sessions
            /\ auth_req[r].pc = "check" /\ auth_req'[r].pc # "check"
                   => /\ sessions' = sessions
                      /\ now < auth_req[r].session[1].expires_at
                            => /\ auth_req'[r].status = "Ok"
                               /\ auth_req'[r].user_id =
                                      auth_req[r].session[1].guest_id]_vars

\* Two verifies of one token, at different times, both succeeded.
C24_Witness ==
    \E r1, r2 \in DOMAIN auth_req:
        /\ Verifies(r1) /\ Verifies(r2)
        /\ auth_req[r1].status = "Ok" /\ auth_req[r2].status = "Ok"
        /\ auth_req[r1].token = auth_req[r2].token
        /\ auth_req[r1].at < auth_req[r2].at
        /\ auth_req[r1].user_id = auth_req[r2].user_id

\* C25: a verify that finds a session with expires_at <= now answers
\* SessionExpired and the session is gone from the store from then on, so a
\* verify that starts later answers InvalidToken; a verify of a token that
\* is not in the store answers InvalidToken and leaves the store unchanged.
C25_ExpiredSessionRemoved ==
    /\ [](\A r \in DOMAIN auth_req:
            Verifies(r) /\ auth_req[r].pc = "done"
                => /\ auth_req[r].status \in {"Ok", "SessionExpired", "InvalidToken"}
                   /\ auth_req[r].status = "InvalidToken" <=> auth_req[r].session = <<>>
                   /\ auth_req[r].status = "SessionExpired"
                         => /\ auth_req[r].session[1].expires_at <= auth_req[r].at
                            /\ auth_req[r].token \notin DOMAIN sessions
                   /\ auth_req[r].status = "Ok"
                         => auth_req[r].session[1].expires_at > auth_req[r].at)
    /\ [][\A r \in DOMAIN auth_req:
            Starts(r, "verify") /\ auth_req'[r].token \notin DOMAIN sessions
                => /\ auth_req'[r].status = "InvalidToken"
                   /\ auth_req'[r].pc = "done"
                   /\ sessions' = sessions]_vars

\* A verify at the very expiry time answered SessionExpired and a later
\* verify of the same token answered InvalidToken.
C25_Witness ==
    \E r1, r2 \in DOMAIN auth_req:
        /\ Verifies(r1) /\ Verifies(r2)
        /\ auth_req[r1].pc = "done" /\ auth_req[r1].status = "SessionExpired"
        /\ auth_req[r1].session[1].expires_at = auth_req[r1].at
        /\ auth_req[r2].token = auth_req[r1].token
        /\ auth_req[r2].status = "InvalidToken"
        /\ auth_req[r2].at > auth_req[r1].at

\* Request r is a logout that revoked its token.
Revoked(r) == auth_req[r].op = "logout" /\ auth_req[r].revoked

\* C26: a logout removes the session stored under exactly the token given
\* and nothing else, and answers revoked = true exactly when there was one;
\* a revoked token stays out of the store, so a verify that starts after the
\* logout answers InvalidToken and a second logout answers revoked = false.
C26_LogoutRevokesExactToken ==
    /\ [](\A r \in DOMAIN auth_req: Revoked(r) => auth_req[r].token \notin DOMAIN sessions)
    /\ [][\A r \in DOMAIN auth_req:
            /\ Starts(r, "logout")
                   => /\ auth_req'[r].pc = "done"
                      /\ auth_req'[r].revoked <=> auth_req'[r].token \in DOMAIN sessions
                      /\ DOMAIN sessions' = DOMAIN sessions \ {auth_req'[r].token}
                      /\ \A t \in DOMAIN sessions': sessions'[t] = sessions[t]
                      /\ (\E q \in DOMAIN auth_req:
                              Revoked(q) /\ auth_req[q].token = auth_req'[r].token)
                            => ~auth_req'[r].revoked
            /\ (/\ Starts(r, "verify")
                /\ \E q \in DOMAIN auth_req:
                       Revoked(q) /\ auth_req[q].token = auth_req'[r].token)
                   => auth_req'[r].status = "InvalidToken"]_vars

\* A token was revoked by one logout and a second, later logout of the same
\* token revoked nothing.
C26_Witness ==
    \E r1, r2 \in DOMAIN auth_req:
        /\ Revoked(r1)
        /\ auth_req[r2].op = "logout" /\ auth_req[r2].pc = "done"
        /\ ~auth_req[r2].revoked
        /\ auth_req[r2].token = auth_req[r1].token
        /\ auth_req[r2].at > auth_req[r1].at


(***************************************************************************)
(* Claims about the end of a connection.                                   *)
(***************************************************************************)
\* C27: the cleanup of a connection that reached its main loop sends Leave
\* if the connection had joined, then calls register_disconnect if it was
\* registered and releases the player-connection slot it still owns, also
\* when the input channel is closed; a registered connection that is done
\* owns no slot and is no longer counted.
C27_CleanupRunsEveryStep ==
    /\ [][\A c \in DOMAIN conn:
            /\ conn[c].pc = "cleanup" /\ conn'[c].pc # "cleanup"
                  => /\ conn'[c].pc = "disconnect"
                     /\ conn[c].can_spawn /\ ~InputClosed
                           => input_q' = Append(input_q, LeaveEv(conn[c].player_id))
            /\ conn[c].pc = "disconnect" /\ conn'[c].pc # "disconnect"
                  => /\ conn'[c].pc = "done"
                     /\ conn[c].registered /\ active_connections > 0
                           => active_connections' = active_connections - 1
                     /\ player_connections'[conn[c].player_id] # c]_vars
    /\ [](\A c \in DOMAIN conn:
            conn[c].registered /\ conn[c].pc = "done"
                => /\ player_connections[conn[c].player_id] # c
                   /\ active_connections < Cardinality({d \in DOMAIN conn:
                                                           conn[d].registered}))


\* C28: a register_connection that finds the lobby gone counts nothing and
\* releases the connection's player slot; the handler then sends Leave if it
\* had joined and the channel is open, closes with 1008 "lobby unavailable"
\* and ends: it never enters its main loop, is never registered and never
\* calls register_disconnect.
C28_LobbyVanishedCompensates ==
    /\ [][\A c \in DOMAIN conn:
            /\ conn[c].pc = "register" /\ conn'[c].pc # "register" /\ ~in_registry
                  => /\ conn'[c].pc = "unavailable"
                     /\ ~conn'[c].registered
                     /\ player_connections'[conn[c].player_id] # c
                     /\ UNCHANGED <<regVars, input_q>>
            /\ conn[c].pc = "unavailable" /\ conn'[c].pc # "unavailable"
                  => /\ conn'[c].pc = "done"
                     /\ conn'[c].close_code = ClosePolicy
                     /\ conn'[c].close_reason = "lobby unavailable"
                     /\ input_q' = IF conn[c].can_spawn /\ ~InputClosed
                                   THEN Append(input_q, LeaveEv(conn[c].player_id))
                                   ELSE input_q
                     /\ UNCHANGED <<regVars, player_connections>>]_vars
    /\ [](\A c \in DOMAIN conn:
            conn[c].pc = "unavailable" \/ conn[c].close_reason = "lobby unavailable"
                => /\ ~conn[c].registered
                   /\ conn[c].pc \in {"unavailable", "done"}
                   /\ ~in_registry
                   /\ player_connections[conn[c].player_id] # c)

\* A joined connection found its lobby gone, was closed with "lobby
\* unavailable", and its Leave is in the input channel.
C28_Witness ==
    \E c \in DOMAIN conn:
        /\ conn[c].pc = "done"
        /\ conn[c].close_reason = "lobby unavailable"
        /\ conn[c].close_code = ClosePolicy
        /\ conn[c].can_spawn
        /\ removals = 1
        /\ \E i \in DOMAIN input_q: input_q[i] = LeaveEv(conn[c].player_id)


\* The step removes the lobby's entry from the registry.
RemovesEntry == in_registry /\ ~in_registry'

\* C29: an entry is removed from the registry only when its lobby has no
\* registered connection, is unpinned and has MatchEnded as its ServerState,
\* also when the lobby was created under an id used before.
C29_RemovedOnlyAfterMatchEnd ==
    [][RemovesEntry =>
          /\ active_connections' = 0
          /\ ~is_pinned
          /\ server_state = "MatchEnded"]_vars


(***************************************************************************)
(* Claims about the end of the match.                                      *)
(***************************************************************************)
\* Interval ticks the worker has taken: the tick counter moves at the end of
\* the loop body.
TicksTaken == tick + (IF w_pc = "body" THEN 1 ELSE 0)

\* C30: with a time limit L > 0 the ServerState is MatchEnded exactly from
\* the first tick at which ticks * interval >= L, it is published in that
\* tick and by no later step, and every loop body after it still sends its
\* snapshot; with L = 0 MatchEnded is never published.
C30_MatchEndsAtLimit ==
    /\ [](match_time_limit = 0 => server_state # "MatchEnded" /\ ~match_ended)
    /\ [](match_time_limit > 0
            => (server_state = "MatchEnded" <=> TicksTaken * Dt >= match_time_limit))
    /\ [][/\ server_state = "MatchEnded" => UNCHANGED <<server_state, state_version>>
          /\ server_state' = "MatchEnded" /\ server_state # "MatchEnded"
                => /\ w_pc = "select" /\ w_pc' = "body"
                   /\ state_version' = state_version + 1
                   /\ (TicksTaken + 1) * Dt >= match_time_limit
                   /\ TicksTaken * Dt < match_time_limit
          /\ w_pc = "body" /\ w_pc' # "body"
                => /\ snapshots_sent' = snapshots_sent + 1
                   /\ last_snapshot'.tick = tick + 1]_vars

\* The match ended at the second tick of a limit of two ticks and two more
\* snapshots were sent after it.
C30_Witness ==
    /\ match_time_limit = 2
    /\ server_state = "MatchEnded"
    /\ match_elapsed = 2
    /\ tick = 4
    /\ snapshots_sent = 4
    /\ last_snapshot.tick = 4


(***************************************************************************)
(* Claims about the input channel.                                         *)
(***************************************************************************)
\* C31: an input frame that finds the worker's channel full is dropped: the
\* handler stays in its loop with no fatal error and the queue is unchanged;
\* an input frame that finds the channel closed ends the loop with
\* InputClosed and leads to the cleanup.
C31_FullDropsClosedIsFatal ==
    [][\A c \in DOMAIN conn:
          ReadsInput(c) /\ conn[c].can_spawn /\ sanitize_input(conn'[c].in_frame).some
              => /\ InputClosed
                    => /\ conn'[c].pc = "cleanup"
                       /\ conn'[c].fatal = "InputClosed"
                       /\ input_q' = input_q
                 /\ ~InputClosed /\ Len(input_q) >= InputCap
                    => /\ conn'[c].pc = "loop"
                       /\ conn'[c].fatal = "none"
                       /\ input_q' = input_q
                       /\ UNCHANGED <<regVars, player_connections>>
                 /\ ~InputClosed /\ Len(input_q) < InputCap
                    => /\ conn'[c].pc = "loop"
                       /\ Len(input_q') = Len(input_q) + 1]_vars

\* The connection has sent more inputs than the channel holds before the
\* worker drained it once: the channel is full and the handler is still in
\* its loop.
C31_Witness ==
    \E c \in DOMAIN conn:
        /\ conn[c].pc = "loop"
        /\ conn[c].fatal = "none"
        /\ Len(input_q) = InputCap
        /\ events_sent > InputCap
        /\ tick = 0
        /\ w_pc # "done"

(***************************************************************************)
(* C32: for each snapshot the serializer writes the encoded bytes into the *)
(* latest-bytes slot before it broadcasts them, so whenever a subscriber   *)
(* receives the bytes of tick t from the bytes broadcast, the latest-bytes *)
(* slot holds a snapshot with tick >= t.                                   *)
(***************************************************************************)
\* Connection c takes an entry from the bytes broadcast in this step.
ReceivesBytes(c) ==
    /\ conn[c].pc = "loop"
    /\ conn'[c].pc = "forward"
    /\ conn'[c].cursor > conn[c].cursor

\* C32: at every receive from the bytes broadcast the latest-bytes slot holds
\* a tick that is at least the tick received.
C32_LatestSlotCoversReceived ==
    [][\A c \in DOMAIN conn:
          ReceivesBytes(c) => world_latest >= conn'[c].fwd_item]_vars

(***************************************************************************)
(* C33: at every tick boundary every entity with alive = false has hp = 0, *)
(* throttle = 0, shoot_cooldown = 0 and respawn_timer >= 0.                *)
(***************************************************************************)
\* C33: the fields of a dead entity between two tick bodies.
C33_DeadEntityFields ==
    \A i \in 1..Len(entities):
        ~entities[i].alive =>
            /\ entities[i].hp = 0
            /\ entities[i].throttle = 0
            /\ entities[i].shoot_cooldown = 0
            /\ entities[i].respawn_timer >= 0

\* An entity that is dead and has counted down at least one tick, next to
\* one that died with its respawn timer just set.
C33_Witness ==
    /\ \E i \in 1..Len(entities):
          ~entities[i].alive /\ entities[i].respawn_timer < RespawnDelay
    /\ tick >= 2

(***************************************************************************)
(* C34: in one tick a live projectile damages at most one entity, namely   *)
(* the first alive entity in insertion order that is not its owner and     *)
(* lies within the hit radius, and it is removed in that same tick; a      *)
(* projectile never damages its owner or a dead entity.                    *)
(***************************************************************************)
\* The results the loop body can have in this state, one for each pair of
\* clock readings (Join, respawn).
BodyResults ==
    {BodyResult(posJoin, posRespawn): posJoin \in SpawnPoints, posRespawn \in SpawnPoints}

\* This step is the loop body with result r.
BodyStep(r) ==
    /\ entities' = r.entities
    /\ projectiles' = r.projectiles

\* What the collision test saw of an entity made it a target.
Target(v, h) == v.alive /\ v.id # h.shooter_id /\ v.in_range

\* The hits of one body in which entity i is the victim.
HitsOn(hits, i) == Cardinality({k \in DOMAIN hits: hits[k].victim = i})

\* C34: every hit of a body has as victim the first target of its
\* projectile, no projectile hits twice, a projectile that hit is gone after
\* the body, and the entities lose hp by their hits and by nothing else.
C34_ProjectileHitsFirstTarget ==
    [][w_pc = "body" /\ w_pc' = "select" =>
        \A r \in BodyResults:
          BodyStep(r) =>
             /\ \A k \in DOMAIN r.hits:
                   LET h == r.hits[k] IN
                   /\ Target(h.view[h.victim], h)
                   /\ \A m \in 1..(h.victim - 1): ~Target(h.view[m], h)
                   /\ \A k2 \in DOMAIN r.hits:
                         k2 # k => r.hits[k2].projectile_id # h.projectile_id
                   /\ \E q \in DOMAIN r.flying:
                         r.flying[q].id = h.projectile_id /\ r.flying[q].ttl > 0
                   /\ \A q \in DOMAIN projectiles':
                         projectiles'[q].id # h.projectile_id
             /\ Len(entities') = Len(r.pre_hit)
             /\ \A i \in DOMAIN entities':
                   entities'[i].hp =
                      Max2(0, r.pre_hit[i].hp - ProjectileDamage * HitsOn(r.hits, i))
      ]_vars

\* After the second body one projectile has been fired and is gone, and of
\* two live ships of one player_id at one place the earlier has lost the
\* damage of one hit and the later is untouched.
C34_Witness ==
    /\ tick = 2
    /\ next_projectile_id = 2
    /\ projectiles = <<>>
    /\ \E i, j \in DOMAIN entities:
          /\ i < j
          /\ entities[i].id = entities[j].id
          /\ entities[i].x = entities[j].x /\ entities[i].y = entities[j].y
          /\ entities[i].alive /\ entities[j].alive
          /\ entities[i].hp = MaxHp - ProjectileDamage
          /\ entities[j].hp = MaxHp

(***************************************************************************)
(* C35: each hit lowers the victim's hp by the damage and clamps it at 0;  *)
(* when hp reaches 0 the entity dies exactly once (alive = false,          *)
(* respawn_timer = RESPAWN_DELAY), and no further projectile, in the same  *)
(* tick or later, hits it or resets its respawn timer until it has         *)
(* respawned.                                                              *)
(***************************************************************************)
\* No Leave waits in the queue: the body keeps every entity at its index.
NoLeaveWaiting == \A k \in DOMAIN input_q: input_q[k].type # "Leave"

\* C35: the hp of a hit, the death at hp 0, and the dead entity's timer that
\* only counts down until the respawn.
C35_DeathOnceTimerNotReset ==
    /\ [](\A i \in DOMAIN entities:
            ~entities[i].alive =>
               entities[i].respawn_timer > 0 /\ entities[i].respawn_timer <= RespawnDelay)
    /\ [][w_pc = "body" /\ w_pc' = "select" =>
         \A r \in BodyResults:
           BodyStep(r) =>
              /\ \A k \in DOMAIN r.hits:
                    LET h == r.hits[k] IN
                    /\ h.hp_before > 0
                    /\ h.victim_hp = Max2(0, h.hp_before - ProjectileDamage)
                    /\ h.victim_hp = 0 =>
                          /\ ~entities'[h.victim].alive
                          /\ entities'[h.victim].hp = 0
                          /\ entities'[h.victim].respawn_timer = RespawnDelay
                          /\ \A k2 \in DOMAIN r.hits:
                                k2 > k => r.hits[k2].victim # h.victim
                    /\ h.victim_hp > 0 /\ ~entities'[h.victim].alive =>
                          \E k2 \in DOMAIN r.hits:
                             /\ k2 > k
                             /\ r.hits[k2].victim = h.victim
                             /\ r.hits[k2].victim_hp = 0
              /\ \A i \in DOMAIN r.pre_hit:
                    ~r.pre_hit[i].alive =>
                       /\ HitsOn(r.hits, i) = 0
                       /\ entities'[i] = r.pre_hit[i]
              /\ NoLeaveWaiting =>
                    \A i \in DOMAIN entities:
                       ~entities[i].alive =>
                          IF entities[i].respawn_timer - Dt <= 0
                          THEN r.pre_hit[i].alive /\ r.pre_hit[i].hp = MaxHp
                          ELSE /\ ~entities'[i].alive
                               /\ entities'[i].respawn_timer =
                                     entities[i].respawn_timer - Dt
       ]_vars

\* A projectile that is still flying lies within the hit radius of a dead
\* entity it does not belong to: the collision loop has passed it over.
C35_Witness ==
    \E i \in DOMAIN entities, q \in DOMAIN projectiles:
       /\ ~entities[i].alive
       /\ entities[i].hp = 0
       /\ projectiles[q].owner_id # entities[i].id
       /\ InHitRange(entities[i], projectiles[q])

(***************************************************************************)
(* C36: a dead entity stays dead (absent from snapshots, not moving, not   *)
(* shooting) until the first tick at which its decremented respawn_timer   *)
(* is <= 0; at that tick it becomes alive with full HP, zero throttle,     *)
(* zero shoot cooldown and neutral input, so inputs received while it was  *)
(* dead do not carry over.                                                 *)
(***************************************************************************)
\* Projectiles the spawn loop of this body has pushed.
Fired(r) == {q \in DOMAIN r.flying: r.flying[q].id >= next_projectile_id}

\* Entities that have fired in this body: their cooldown was set to the
\* full cooldown by the spawn loop.
Shooters(r) ==
    {i \in DOMAIN r.pre_hit:
        r.pre_hit[i].alive /\ r.pre_hit[i].shoot_cooldown = ProjectileCooldown}

\* C36: in every loop body an entity that is dead before it and whose timer
\* minus dt is still positive stays dead, where it was, fires nothing and is
\* in no snapshot; otherwise it is alive with full hp, no throttle, no
\* cooldown and neutral input when the projectile pass begins, fires nothing
\* in that body, and keeps the neutral input at its end.
C36_DeadUntilTimerRunsOut ==
    [][w_pc = "body" /\ w_pc' = "select" /\ NoLeaveWaiting =>
        \A r \in BodyResults:
          BodyStep(r) =>
             /\ Cardinality(Fired(r)) = Cardinality(Shooters(r))
             /\ Len(last_snapshot'.entities) =
                   Cardinality({i \in DOMAIN entities': entities'[i].alive})
             /\ \A k \in DOMAIN last_snapshot'.entities:
                   last_snapshot'.entities[k].hp > 0
             /\ \A i \in DOMAIN entities:
                   ~entities[i].alive =>
                      IF entities[i].respawn_timer - Dt > 0
                      THEN /\ ~entities'[i].alive
                           /\ entities'[i].hp = 0
                           /\ entities'[i].x = entities[i].x
                           /\ entities'[i].y = entities[i].y
                           /\ entities'[i].rot = entities[i].rot
                           /\ entities'[i].throttle = 0
                           /\ i \notin Shooters(r)
                      ELSE /\ r.pre_hit[i].alive
                           /\ r.pre_hit[i].hp = MaxHp
                           /\ r.pre_hit[i].throttle = 0
                           /\ r.pre_hit[i].shoot_cooldown = 0
                           /\ r.pre_hit[i].last_input = NeutralInput
                           /\ r.pre_hit[i].respawn_timer = 0
                           /\ i \notin Shooters(r)
                           /\ entities'[i].last_input = NeutralInput
                           /\ entities'[i].throttle = 0
                           /\ entities'[i].shoot_cooldown = 0
      ]_vars

\* The worker is about to run the body in which a dead entity comes back,
\* and an Input with thrust or fire for that player waits in the queue: the
\* drain stores it on the dead entity, the respawn of the same body clears it.
C36_Witness ==
    /\ w_pc = "body"
    /\ NoLeaveWaiting
    /\ \E i \in DOMAIN entities, k \in DOMAIN input_q:
          /\ ~entities[i].alive
          /\ entities[i].respawn_timer - Dt <= 0
          /\ \A j \in DOMAIN entities: entities[j].id = entities[i].id => j = i
          /\ input_q[k].type = "Input"
          /\ input_q[k].player_id = entities[i].id
          /\ input_q[k].input # NeutralInput

(***************************************************************************)
(* C37: a Leave{player_id} or an Input{player_id, ..} event for a          *)
(* player_id that has no entity leaves the worker's entities and           *)
(* projectiles unchanged; a Leave for an existing player removes its       *)
(* entity and every projectile it owns, so no later snapshot contains them *)
(* until a new Join.                                                       *)
(***************************************************************************)
\* The world the drain has made when it takes event k + 1 of the queue.
WorldAfter(k, pos) ==
    DrainEvents([entities |-> entities, projectiles |-> projectiles],
                SubSeq(input_q, 1, k), pos)

OwnsEntity(ents, p) == \E i \in DOMAIN ents: ents[i].id = p

\* Player p leaves in this queue and does not join after that.
LeavesForGood(p) ==
    \E k \in DOMAIN input_q:
       /\ input_q[k] = LeaveEv(p)
       /\ \A m \in (k + 1)..Len(input_q): input_q[m] # JoinEv(p)

\* C37: every Leave and Input the drain takes for a player without entity
\* changes nothing; every Leave leaves no entity and no projectile of its
\* player and keeps all the others; a projectile always has an entity of its
\* owner, and a snapshot shows only players that have an entity, so a player
\* that left is in no snapshot from the body that drained the Leave on.
C37_LeaveRemovesAbsentIgnored ==
    /\ [](w_pc = "body" =>
            \A pos \in SpawnPoints, k \in DOMAIN input_q:
               LET w == WorldAfter(k - 1, pos)
                   ev == input_q[k]
                   w2 == ApplyEvent(w, ev, pos)
               IN /\ (ev.type \in {"Leave", "Input"}
                        /\ ~OwnsEntity(w.entities, ev.player_id)) => w2 = w
                  /\ ev.type = "Leave" =>
                        /\ ~OwnsEntity(w2.entities, ev.player_id)
                        /\ \A q \in DOMAIN w2.projectiles:
                              w2.projectiles[q].owner_id # ev.player_id
                        /\ w2.entities =
                              SelectSeq(w.entities, LAMBDA e: e.id # ev.player_id)
                        /\ Len(w.projectiles) - Len(w2.projectiles) =
                              Cardinality({q \in DOMAIN w.projectiles:
                                  w.projectiles[q].owner_id = ev.player_id}))
    /\ [](\A q \in DOMAIN projectiles: OwnsEntity(entities, projectiles[q].owner_id))
    /\ [](snapshots_sent >= 1 =>
            /\ \A k \in DOMAIN last_snapshot.entities:
                  OwnsEntity(entities, last_snapshot.entities[k].id)
            /\ \A k \in DOMAIN last_snapshot.projectiles:
                  OwnsEntity(entities, last_snapshot.projectiles[k].owner_id))
    /\ [][w_pc = "body" /\ w_pc' = "select" =>
           \A p \in PlayerIds:
              LeavesForGood(p) => ~OwnsEntity(entities', p)]_vars

\* The worker is about to drain a Leave of a player that has an entity and
\* a flying projectile, followed by an Input of the same player.
C37_Witness ==
    /\ w_pc = "body"
    /\ \E k \in DOMAIN input_q, q \in DOMAIN projectiles:
          /\ input_q[k].type = "Leave"
          /\ OwnsEntity(entities, input_q[k].player_id)
          /\ projectiles[q].owner_id = input_q[k].player_id
          /\ k < Len(input_q)
          /\ input_q[k + 1].type = "Input"
          /\ input_q[k + 1].player_id = input_q[k].player_id

(***************************************************************************)
(* C38: while a lobby is in the registry, its active_connections equals    *)
(* the number of connections that completed register_connection and have   *)
(* not yet run register_disconnect; consequently a lobby is never removed   *)
(* while a registered connection exists, and a register_connection that     *)
(* races with removal either happens before it (and prevents it) or         *)
(* returns none.                                                            *)
(***************************************************************************)
\* Connection c has completed register_connection and has not yet run
\* register_disconnect.
Counted(c) == conn[c].registered /\ conn[c].pc # "done"

\* The same of the state after the step.
CountedNext(c) == conn'[c].registered /\ conn'[c].pc # "done"

\* C38: the counter of a registered lobby is the number of counted
\* connections; a counted connection keeps its lobby registered; the step
\* that removes the lobby leaves no counted connection; register_connection
\* either finds the lobby, adds one and returns the handle, or finds none
\* and changes nothing.
C38_CounterMatchesConnections ==
    /\ [](in_registry =>
            active_connections = Cardinality({c \in DOMAIN conn: Counted(c)}))
    /\ [](\A c \in DOMAIN conn: Counted(c) => in_registry)
    /\ [][/\ (in_registry /\ ~in_registry' =>
                 /\ \A c \in DOMAIN conn: ~CountedNext(c)
                 /\ active_connections' = 0)
           /\ \A c \in DOMAIN conn:
                 conn[c].pc = "register" /\ conn'[c].pc # "register" =>
                    IF in_registry
                    THEN /\ CountedNext(c)
                         /\ conn'[c].pc = "loop"
                         /\ active_connections' = active_connections + 1
                         /\ in_registry'
                    ELSE /\ ~conn'[c].registered
                         /\ conn'[c].pc = "unavailable"
                         /\ UNCHANGED regVars
       ]_vars

\* One connection was registered and has disconnected, which removed the
\* lobby; the other one reached register_connection after that and got
\* none.
C38_Witness ==
    /\ ~in_registry
    /\ removals = 1
    /\ \E c, d \in DOMAIN conn:
          /\ c # d
          /\ conn[c].pc = "unavailable"
          /\ ~conn[c].registered
          /\ conn[d].registered
          /\ conn[d].pc = "done"

(***************************************************************************)
(* C39: after any sequence of enqueue calls the matchmaking queue contains *)
(* no player_id twice and at most one waiting player per region.           *)
(***************************************************************************)
\* C39: two different places of the queue hold different players and
\* different regions.
C39_QueueDistinctPlayersRegions ==
    \A i, j \in DOMAIN mm_queue:
       i # j =>
          /\ mm_queue[i].player_id # mm_queue[j].player_id
          /\ mm_queue[i].region # mm_queue[j].region

\* Two players wait, in regions that differ only by a leading blank, and the
\* last call was one for a player that already waits.
C39_Witness ==
    /\ Len(mm_queue) >= 2
    /\ mm_out.status = "AlreadyQueued"
    /\ \E i, j \in DOMAIN mm_queue:
          Trim(mm_queue[i].region) = Trim(mm_queue[j].region) /\ i # j

(***************************************************************************)
(* C40: Matchmaker::enqueue for a player_id already waiting returns        *)
(* AlreadyQueued and leaves the queue unchanged; otherwise, if a player of *)
(* the same region is waiting, it returns Matched with the earliest-       *)
(* enqueued such player, removes exactly that player and does not enqueue  *)
(* the requester; otherwise it appends the requester at the back and       *)
(* returns Waiting.                                                        *)
(***************************************************************************)
\* This step is a call of Matchmaker::enqueue.
EnqueueCalled == mm_calls' = mm_calls + 1 /\ mm_out'.status # "BadRequest"

Waits(p) == \E i \in DOMAIN mm_queue: mm_queue[i].player_id = p

SameRegion(g) == {i \in DOMAIN mm_queue: mm_queue[i].region = g}

\* C40: the three cases of a call, by the queue before it.
C40_EnqueueOutcome ==
    [][EnqueueCalled =>
        IF Waits(mm_req'.player_id)
        THEN /\ mm_out'.status = "AlreadyQueued"
             /\ mm_out'.player_id = mm_req'.player_id
             /\ mm_queue' = mm_queue
        ELSE IF SameRegion(mm_req'.region) # {}
        THEN /\ mm_out'.status = "Matched"
             /\ mm_out'.region = mm_req'.region
             /\ \E i \in SameRegion(mm_req'.region):
                   /\ \A j \in SameRegion(mm_req'.region):
                         /\ i <= j
                         /\ mm_queue[i].enqueued_at <= mm_queue[j].enqueued_at
                   /\ mm_out'.opponent_id = mm_queue[i].player_id
                   /\ Len(mm_queue') = Len(mm_queue) - 1
                   /\ \A k \in DOMAIN mm_queue':
                         mm_queue'[k] = IF k < i THEN mm_queue[k] ELSE mm_queue[k + 1]
             /\ \A k \in DOMAIN mm_queue':
                   mm_queue'[k].player_id # mm_req'.player_id
        ELSE /\ mm_out'.status = "Waiting"
             /\ mm_out'.region = mm_req'.region
             /\ Len(mm_queue') = Len(mm_queue) + 1
             /\ SubSeq(mm_queue', 1, Len(mm_queue)) = mm_queue
             /\ mm_queue'[Len(mm_queue')].player_id = mm_req'.player_id
             /\ mm_queue'[Len(mm_queue')].region = mm_req'.region
             /\ mm_queue'[Len(mm_queue')].player_skill = mm_req'.player_skill
      ]_vars

\* The last call was matched with the waiting player of its region: that
\* player and the requester do not wait, a player of another region still
\* does.
C40_Witness ==
    /\ mm_out.status = "Matched"
    /\ Len(mm_queue) >= 1
    /\ mm_calls >= 3
    /\ \A k \in DOMAIN mm_queue:
          /\ mm_queue[k].player_id # mm_req.player_id
          /\ mm_queue[k].player_id # mm_out.opponent_id
          /\ mm_queue[k].region # mm_req.region

====
